---- MODULE Spec2Model ----
(***************************************************************************)
(* SecureChat server: the per-connection session state machine             *)
(* (server/connection.py), the online-user registry (server/registry.py),  *)
(* the chat router (server/router.py), the AES-GCM secure channel          *)
(* (server/secure_channel.py) and the account store (server/db_async.py,   *)
(* server/auth.py).                                                        *)
(*                                                                         *)
(* Every session is one asyncio task.  A step of the model is the code a  *)
(* task runs between two points where it really suspends: reader.readline  *)
(* and the account-store calls (aiosqlite).  The registry's lock is never  *)
(* held across an await, so acquiring it never suspends and the registry   *)
(* operations are part of the step that calls them.                        *)
(***************************************************************************)
EXTENDS Integers, Sequences, FiniteSets, TLC

\* ---------------------------------------------------------------- bounds
NumSessions == 2
MaxFrames == 4
MaxLines == 3
\* the client: connections it attempts, messages the user enqueues, lines it
\* receives on one established connection
MaxConnects == 2
MaxItems == 2
MaxRecv == 2

Sessions == 1..NumSessions

\* ------------------------------------------------------- python-ish values
None == <<>>
NoName == ""
KeyLen == 32
NoChannel == [id |-> 0, len |-> 0]

\* ------------------------------------------------------------ emails, ids
\* An email is a sequence of characters; strip() and lower() are computed.
IsSpace(c) == c = " "

Lower(c) == CASE c = "A" -> "a" [] c = "B" -> "b" [] OTHER -> c

RECURSIVE LStrip(_)
LStrip(e) == IF e # <<>> /\ IsSpace(Head(e)) THEN LStrip(Tail(e)) ELSE e

RECURSIVE RStrip(_)
RStrip(e) ==
    IF e # <<>> /\ IsSpace(e[Len(e)]) THEN RStrip(SubSeq(e, 1, Len(e) - 1)) ELSE e

Strip(e) == RStrip(LStrip(e))

\* mutant: the email is trimmed, its case is kept
NormalizeEmail_strip_only(e) == Strip(e)

NormalizeEmail(e) == [i \in 1..Len(Strip(e)) |-> Lower(Strip(e)[i])]

\* uuid5(NAMESPACE_DNS, normalized email): an injective digest of the name.
_generate_user_id(email) == <<"uuid5", "dns">> \o NormalizeEmail(email)

\* mutant: the hash does not depend on the password
hash_password_constant(password, salt) == [salt |-> salt, digest |-> <<salt, "">>]

\* bcrypt: the hash carries its salt; checkpw re-hashes under that salt.
hash_password(password, salt) == [salt |-> salt, digest |-> <<salt, password>>]

\* mutant: every password passes
check_password_any(password, hashed) == TRUE

check_password(password, hashed) == hashed.digest = <<hashed.salt, password>>

\* ------------------------------------------------------------------- JSON
\* A line of text either parses as JSON or does not; dumps and loads convert
\* between a value and its text.
json_dumps(data) == [json |-> TRUE, val |-> data]

json_ok(text) == text.json

json_loads(text) == text.val

NotJson == [json |-> FALSE, val |-> <<>>]

\* -------------------------------------------------------------- RSA / AES
ServerRsa == "server_rsa"
OtherRsa == "other_rsa"
public_key_pem == [pem |-> ServerRsa]

\* base64 text of an RSA-OAEP ciphertext of an AES key under a public key
RsaB64(pub, aes_key) == [b64 |-> TRUE, rsa |-> pub, key |-> aes_key]

b64_ok(x) == x.b64

\* mutant: a ciphertext made for any public key is accepted
rsa_decrypt_any(x) == x.rsa \in {ServerRsa, OtherRsa}

rsa_decrypt_ok(x) == x.rsa = ServerRsa

\* mutant: the length check is left to AESGCM, which takes 16, 24 or 32 bytes
SecureChannel_any_aes(aes_key) == aes_key.len \in {16, 24, 32}

\* SecureChannel.__init__ accepts exactly 32-byte keys
SecureChannel_ok(aes_key) == aes_key.len = KeyLen

\* SecureChannel.encrypt: base64(nonce + AESGCM(key).encrypt(plaintext)); the
\* blob is whole while it holds its nonce and its tag
encrypt(key, plaintext) ==
    [b64 |-> TRUE, whole |-> TRUE, key |-> key, tag |-> TRUE, pt |-> plaintext]

\* mutant: the tag is not verified
decrypt_ok_no_tag(key, blob) == blob.b64 /\ blob.whole /\ blob.key = key

\* mutant: the blob is opened whatever key sealed it
decrypt_ok_any_key(key, blob) == blob.b64 /\ blob.whole /\ blob.tag

\* SecureChannel.decrypt raises ValueError on bad base64, a blob cut short,
\* wrong key or bad tag
decrypt_ok(key, blob) == blob.b64 /\ blob.whole /\ blob.key = key /\ blob.tag

decrypt(key, blob) == blob.pt

\* ------------------------------------------------------- what clients send
\* the client of connection s generates its own random AES key; a client may
\* also send a key of the wrong length
ClientKey(s) == [id |-> s, len |-> 32]
ShortKey(s) == [id |-> s, len |-> 16]
ForeignKey == [id |-> 0, len |-> 32]

Names == {"Bob"}
Salts == {"s1"}
\* JSON values of a payload field: a string, a number.  A user id is a string,
\* modelled as a sequence; NumberId is the number 7 where an id is expected.
Texts == {[str |-> "hi"]}
JsonNumber == [num |-> 7]
NumberId == <<"number", "7">>
UnknownId == <<"uuid5", "dns", "z">>

HasKey(d, k) == k \in DOMAIN d

\* a JSON object, as opposed to a string or a number
is_object(v) == ~HasKey(v, "str") /\ ~HasKey(v, "num")

\* first line of a connection
KeyExchangeEnvelopes(s) ==
    {[type |-> "key_exchange", payload |-> [key |-> RsaB64(ServerRsa, k)]] :
        k \in {ClientKey(s), ShortKey(s)}}
    \cup {[type |-> "key_exchange", payload |-> [key |-> RsaB64(OtherRsa, ClientKey(s))]],
          [type |-> "key_exchange",
           payload |-> [key |-> [RsaB64(ServerRsa, ClientKey(s)) EXCEPT !.b64 = FALSE]]],
          [type |-> "key_exchange", payload |-> [nokey |-> TRUE]],
          [type |-> "key_exchange"],
          [type |-> "login", payload |-> [email |-> <<"a">>, password |-> "p1"]]}

\* inner envelopes of an established connection
LoginEnvelopes ==
    {[type |-> "login", payload |-> [email |-> c[1], password |-> c[2]]] :
        c \in {<<<<"a">>, "p1">>, <<<<" ", "A">>, "p1">>, <<<<"a">>, "p2">>, <<<<"b">>, "p2">>}}
    \cup {[type |-> "login", payload |-> [email |-> <<"a">>]]}

SignupEnvelopes ==
    {[type |-> "signup", payload |-> [full_name |-> n, email |-> e, password |-> "p2"]] :
        n \in Names, e \in {<<"b">>, <<" ", "A">>}}
    \cup {[type |-> "signup", payload |-> [email |-> <<"b">>]]}

\* chats that lack the payload, carry a string as payload, lack a field, or
\* carry a number as text or as recipient_id
MalformedChatEnvelopes ==
    {[type |-> "chat"],
     [type |-> "chat", payload |-> [str |-> "hi"]],
     [type |-> "chat", payload |-> [text |-> [str |-> "hi"]]],
     [type |-> "chat", payload |-> [recipient_id |-> UnknownId]],
     [type |-> "chat", payload |-> [recipient_id |-> UnknownId, text |-> JsonNumber]],
     [type |-> "chat", payload |-> [recipient_id |-> _generate_user_id(<<"a">>),
                                    text |-> JsonNumber]],
     [type |-> "chat", payload |-> [recipient_id |-> NumberId, text |-> [str |-> "hi"]]]}

\* a chat may carry a sender_id of the client's choosing
ChatEnvelopes ==
    {[type |-> "chat", payload |-> [recipient_id |-> r, text |-> t]] :
        r \in {_generate_user_id(<<"a">>), UnknownId}, t \in Texts}
    \cup {[type |-> "chat", payload |-> [recipient_id |-> r, text |-> t, sender_id |-> f]] :
        r \in {_generate_user_id(<<"a">>), _generate_user_id(<<"b">>)}, t \in Texts,
        f \in {_generate_user_id(<<"b">>)}}
    \cup MalformedChatEnvelopes

OtherEnvelopes ==
    {[type |-> "whoisonline", payload |-> <<>>], [type |-> "logout", payload |-> <<>>],
     [type |-> "ping", payload |-> <<>>]}

InnerEnvelopes == LoginEnvelopes \cup SignupEnvelopes \cup ChatEnvelopes \cup OtherEnvelopes

Eof == [k |-> "eof", text |-> NotJson]
Reset == [k |-> "reset", text |-> NotJson]
Line(text) == [k |-> "line", text |-> text]

\* a line longer than the reader's limit of 64 KiB: readline raises ValueError
Oversized == [k |-> "oversized", text |-> NotJson]

\* a line that is JSON but not a JSON object
NotAnObject == Line(json_dumps(JsonNumber))

FirstLines(s) ==
    {Eof, Reset, Line(NotJson), Oversized, NotAnObject}
    \cup {Line(json_dumps(e)) : e \in KeyExchangeEnvelopes(s)}

\* what a client holding key k can put on an established connection: well-formed
\* encrypted envelopes, a blob with a flipped byte, a blob under another key, a
\* blob that is not base64, a blob cut short, an envelope without payload, a
\* line that is not JSON, a line that is not a JSON object, a blob whose
\* plaintext is not a JSON object, a line over the reader's limit
Sealed(k, env) == [type |-> "encrypted_payload", payload |-> encrypt(k, json_dumps(env))]

LoopLines(k) ==
    {Eof, Reset, Line(NotJson), Oversized, NotAnObject}
    \cup {Line(json_dumps([type |-> "encrypted_payload",
                           payload |-> encrypt(k, json_dumps(JsonNumber))]))}
    \cup {Line(json_dumps(Sealed(k, e))) : e \in InnerEnvelopes}
    \cup {Line(json_dumps([type |-> "encrypted_payload",
                           payload |-> [encrypt(k, json_dumps(e)) EXCEPT !.tag = FALSE]])) :
            e \in {[type |-> "login", payload |-> [email |-> <<"a">>, password |-> "p1"]],
                   [type |-> "chat",
                    payload |-> [recipient_id |-> _generate_user_id(<<"a">>),
                                 text |-> [str |-> "hi"]]]}}
    \cup {Line(json_dumps(Sealed(ForeignKey, [type |-> "whoisonline", payload |-> <<>>]))),
          Line(json_dumps([type |-> "encrypted_payload",
                           payload |-> [encrypt(k, NotJson) EXCEPT !.b64 = FALSE]])),
          Line(json_dumps([type |-> "encrypted_payload",
                           payload |-> [encrypt(k, json_dumps([type |-> "whoisonline",
                                                               payload |-> <<>>]))
                                           EXCEPT !.whole = FALSE]])),
          Line(json_dumps([type |-> "encrypted_payload", payload |-> encrypt(k, NotJson)])),
          Line(json_dumps([type |-> "encrypted_payload", nopayload |-> TRUE]))}

\* ------------------------------------------------------------------ state
VARIABLES
    pc,               \* where each session's task is: new, await_key, loop,
                      \* authenticating, adding, storing, draining, closed
    user_id, full_name, email, is_authenticated, secure_channel,  \* ClientSession fields
    wire,             \* the lines each session's writer has written, in order
    local,            \* the handler's local variables across a suspension
    online_users,     \* UserRegistry._online_users, an insertion-ordered dict
    users,            \* the rows of table users
    messages,         \* the rows of table messages, in insertion order
    nread,            \* how many lines each session has read from its socket since the
                      \* initial state
    last,             \* history: the line read last and the session that read it
    routed,           \* history: one record per call of Router.route_chat_message
    conn_lost,        \* the connections whose transport has lost its peer
    stream,           \* the bytes handed to each connection's transport, in order
    sending,          \* the call of send_json each task is suspended in, if any
    inbox,            \* the line (or EOF) the peer has sent that the session's reader
                      \* holds and the task has not read yet
    paused,           \* the connections whose peer has stopped reading, with the
                      \* transport's buffer above its high-water mark
    lock,             \* the task that holds UserRegistry._lock, if any
    waiters,          \* the tasks suspended in the acquire of UserRegistry._lock
    result,           \* what the registry method each task called last has returned
    listening,        \* the listener accepts connections
    db_open,          \* the connection of the account store is open
    stop_pc,          \* where the main task is: serving, wait_closed (returns at
                      \* once), wait_connections (returns when every connection is
                      \* done), db_close, db_closed, stopped
    called_closed,    \* history: the sessions that called the store after its close
    nc,               \* NetworkClient: _writer, _secure_channel, gui_queue, outgoing (and
                      \* nput, how many messages the user has enqueued)
    ctask,            \* the client's _async_main: where it is, its retry_delay, the key
                      \* of the handshake in progress, its two loops, the connections made
    cconn             \* the client's connection: the lines it has written on it, whether
                      \* the server has closed it, the lines read on it and the last one

vars == <<pc, user_id, full_name, email, is_authenticated, secure_channel, wire, local,
          online_users, users, messages, nread, last, routed, conn_lost,
          stream, sending, inbox, paused, lock, waiters, result,
          listening, db_open, stop_pc, called_closed, nc, ctask, cconn>>

transport == <<conn_lost, stream, sending>>
peers == <<inbox, paused>>
registry_lock == <<lock, waiters, result>>
shutdown == <<listening, db_open, stop_pc, called_closed>>
client == <<nc, ctask, cconn>>
\* what the handlers of the sessions never assign
env == <<peers, registry_lock, shutdown, client>>
beyond_peers == <<registry_lock, shutdown, client>>
beyond_registry == <<peers, shutdown, client>>
beyond_shutdown == <<peers, registry_lock, client>>
beyond_client == <<peers, registry_lock, shutdown>>
sessionFields == <<user_id, full_name, email, is_authenticated>>
store == <<users, messages>>

NoSession == 0
NoLocal == <<>>
NoLine == [k |-> "none", text |-> NotJson]

InitEnv ==
    /\ inbox = [s \in Sessions |-> NoLine]
    /\ paused = [s \in Sessions |-> FALSE]
    /\ lock = NoSession
    /\ waiters = <<>>
    /\ result = [s \in Sessions |-> NoLocal]
    /\ listening = TRUE
    /\ db_open = TRUE
    /\ stop_pc = "serving"
    /\ called_closed = {}
    /\ nc = [writer |-> FALSE, secure_channel |-> NoChannel, gui_queue |-> <<>>,
             outgoing |-> <<>>, nput |-> 0]
    /\ ctask = [pc |-> "idle", retry_delay |-> 1, aes_key |-> NoChannel, recv |-> "off",
                send |-> "off", n |-> 0]
    /\ cconn = [sent |-> <<>>, eof |-> FALSE, nrecv |-> 0, last |-> NoLine]

\* The account store is a file that outlives the server: one user signed up in
\* an earlier run and is in table users when the server starts.
AliceRow ==
    [id |-> _generate_user_id(<<"a">>), full_name |-> "Alice", email |-> <<"a">>,
     password |-> hash_password("p1", "s1")]

Init ==
    /\ pc = [s \in Sessions |-> "new"]
    /\ user_id = [s \in Sessions |-> None]
    /\ full_name = [s \in Sessions |-> NoName]
    /\ email = [s \in Sessions |-> None]
    /\ is_authenticated = [s \in Sessions |-> FALSE]
    /\ secure_channel = [s \in Sessions |-> NoChannel]
    /\ wire = [s \in Sessions |-> <<>>]
    /\ local = [s \in Sessions |-> NoLocal]
    /\ online_users = <<>>
    /\ users = {AliceRow}
    /\ messages = <<>>
    /\ nread = [s \in Sessions |-> 0]
    /\ last = [session |-> NoSession, line |-> Eof]
    /\ routed = <<>>
    /\ conn_lost = [s \in Sessions |-> FALSE]
    /\ stream = [s \in Sessions |-> <<>>]
    /\ sending = [s \in Sessions |-> NoLocal]
    /\ InitEnv

\* ------------------------------------------------------------ the registry
RegistryIndex(reg, uid) == {i \in 1..Len(reg) : reg[i].user_id = uid}

\* mutant: a second login adds an entry instead of overwriting
register_user_append(reg, uid, s) == Append(reg, [user_id |-> uid, session |-> s])

\* mutant: a user that is registered keeps the session registered first
register_user_keep_first(reg, uid, s) ==
    IF RegistryIndex(reg, uid) # {} THEN reg ELSE Append(reg, [user_id |-> uid, session |-> s])

register_user(reg, uid, s) ==
    IF RegistryIndex(reg, uid) # {}
    THEN [i \in 1..Len(reg) |-> IF reg[i].user_id = uid THEN [user_id |-> uid, session |-> s]
                                                      ELSE reg[i]]
    ELSE Append(reg, [user_id |-> uid, session |-> s])

\* mutant: the comparison is inverted
unregister_user_inverted(reg, uid) == SelectSeq(reg, LAMBDA e : e.user_id = uid)

unregister_user(reg, uid) == SelectSeq(reg, LAMBDA e : e.user_id # uid)

get_session_by_id(reg, uid) ==
    IF RegistryIndex(reg, uid) = {} THEN NoSession
    ELSE reg[CHOOSE i \in RegistryIndex(reg, uid) : TRUE].session

\* mutant: the list is made from the authenticated sessions, not the registry
get_online_users_list_by_session(reg) ==
    LET auth == SelectSeq([i \in 1..NumSessions |-> i],
                          LAMBDA t : pc[t] # "closed" /\ is_authenticated[t])
    IN  [i \in 1..Len(auth) |-> [id |-> user_id[auth[i]], full_name |-> full_name[auth[i]]]]

get_online_users_list(reg) ==
    LET auth == SelectSeq(reg, LAMBDA e : is_authenticated[e.session])
    IN  [i \in 1..Len(auth) |->
            [id |-> user_id[auth[i].session], full_name |-> full_name[auth[i].session]]]

\* ------------------------------------------------------- the account store
get_user_by_email(rows, e) == {r \in rows : r.email = e}

\* INSERT fails with IntegrityError on a duplicate id (PRIMARY KEY) or email (UNIQUE)
add_user_ok(rows, e) ==
    /\ get_user_by_email(rows, e) = {}
    /\ {r \in rows : r.id = _generate_user_id(e)} = {}

\* mutant: the row gets a random id
add_user_uuid4(rows, name, e, hashed) ==
    IF add_user_ok(rows, e)
    THEN rows \cup {[id |-> <<"uuid4", "r">>, full_name |-> name, email |-> e,
                     password |-> hashed]}
    ELSE rows

add_user(rows, name, e, hashed) ==
    IF add_user_ok(rows, e)
    THEN rows \cup {[id |-> _generate_user_id(e), full_name |-> name, email |-> e,
                     password |-> hashed]}
    ELSE rows

\* str.encode('utf-8'); only a str has the method
encode_ok(payload) == HasKey(payload, "str")

encode(payload) == [utf8 |-> payload.str]

\* mutant: the INSERT is not executed
store_message_dropped(rows, sender, recipient, payload) == rows

store_message(rows, sender, recipient, payload) ==
    Append(rows, [sender_id |-> sender, recipient_id |-> recipient,
                  payload_blob |-> encode(payload)])

\* mutant: the email is looked up as the client typed it
authenticate_as_typed(rows, e, password) ==
    {r \in get_user_by_email(rows, e) : check_password(password, r.password)}

\* Authenticator.authenticate: the user row on a match, otherwise nothing
authenticate(rows, e, password) ==
    {r \in get_user_by_email(rows, NormalizeEmail(e)) : check_password(password, r.password)}

\* ------------------------------------------------------------ writing lines
_send_plaintext_json(w, s, data) == [w EXCEPT ![s] = Append(@, json_dumps(data))]

\* mutant: the line is written without encryption
send_json_plaintext(w, ch, s, data) ==
    IF ch[s] = NoChannel \/ conn_lost[s] THEN w ELSE [w EXCEPT ![s] = Append(@, json_dumps(data))]

\* StreamWriter.drain raises ConnectionResetError once the connection is lost
drain_raises(s) == conn_lost[s]

\* writer.drain() on the connection of s does not return: the peer does not
\* read and the transport's buffer is above its high-water mark
drain_blocks(s) == paused[s]

\* where the task of s is after a handler that ends by writing to its own
\* connection: back at readline or, the write having raised, through the
\* finally block
after_send(s) == [pc EXCEPT ![s] = IF drain_raises(s) THEN "closed" ELSE "loop"]

\* ch is the sessions' secure_channel fields at the moment of the call; a
\* transport that has lost its connection discards what is written to it
send_json(w, ch, s, data) ==
    IF ch[s] = NoChannel \/ conn_lost[s] THEN w
    ELSE [w EXCEPT ![s] =
            Append(@, json_dumps([type |-> "encrypted_payload",
                                  payload |-> encrypt(ch[s], json_dumps(data))]))]

Response(status, message) ==
    [type |-> "response", payload |-> [status |-> status, message |-> message]]

\* ------------------------------------------------- ClientSession: lifecycle
\* Server.handle_client creates the session; handle_connection sends
\* handshake_start and waits for the first line.  Connections are numbered in
\* the order they are accepted.
Accept(s) ==
    /\ pc[s] = "new"
    /\ \A t \in Sessions : t < s => pc[t] # "new"
    /\ wire' = _send_plaintext_json(wire, s,
                  [type |-> "handshake_start", payload |-> [public_key |-> public_key_pem]])
    /\ pc' = [pc EXCEPT ![s] = "await_key"]
    /\ UNCHANGED <<sessionFields, secure_channel, local, online_users, store, nread, last, routed,
                   transport>>

\* mutant: the finally block closes the writer without unregistering
Finally_keeps_entry(s) ==
    /\ online_users' = online_users
    /\ pc' = [pc EXCEPT ![s] = "closed"]

\* the finally block of handle_connection
Finally(s) ==
    /\ online_users' = IF is_authenticated[s] /\ user_id[s] # None
                       THEN unregister_user(online_users, user_id[s])
                       ELSE online_users
    /\ pc' = [pc EXCEPT ![s] = "closed"]

Read(s, line) ==
    /\ nread[s] < MaxLines
    /\ nread' = [nread EXCEPT ![s] = @ + 1]
    /\ last' = [session |-> s, line |-> line]
    /\ UNCHANGED transport

\* _handle_key_exchange returns True
key_exchange_ok(envelope) ==
    /\ HasKey(envelope, "payload")
    /\ HasKey(envelope.payload, "key")
    /\ b64_ok(envelope.payload.key)
    /\ rsa_decrypt_ok(envelope.payload.key)
    /\ SecureChannel_ok(envelope.payload.key.key)

HandshakeAccepts(line) ==
    /\ line.k = "line"
    /\ json_ok(line.text)
    /\ is_object(json_loads(line.text))
    /\ json_loads(line.text).type = "key_exchange"
    /\ key_exchange_ok(json_loads(line.text))

\* phase 1 of handle_connection: the first line of the connection
Handshake(s, line) ==
    /\ pc[s] = "await_key"
    /\ Read(s, line)
    /\ IF HandshakeAccepts(line)
       THEN /\ secure_channel' =
                  [secure_channel EXCEPT ![s] = json_loads(line.text).payload.key.key]
            /\ wire' = send_json(wire, secure_channel', s,
                          [type |-> "handshake_complete",
                           payload |-> [message |-> "Secure channel established."]])
            /\ pc' = [pc EXCEPT ![s] = "loop"]
            /\ UNCHANGED online_users
       ELSE /\ Finally(s)
            /\ UNCHANGED <<secure_channel, wire>>
    /\ UNCHANGED <<sessionFields, local, store, routed>>

\* the inner envelope of a line of phase 2, when the line yields one
Decrypts(s, line) ==
    /\ line.k = "line"
    /\ json_ok(line.text)
    /\ HasKey(json_loads(line.text), "payload")
    /\ decrypt_ok(secure_channel[s], json_loads(line.text).payload)
    /\ json_ok(decrypt(secure_channel[s], json_loads(line.text).payload))
    /\ is_object(json_loads(decrypt(secure_channel[s], json_loads(line.text).payload)))

Inner(s, line) == json_loads(decrypt(secure_channel[s], json_loads(line.text).payload))

\* mutant: a line that yields no envelope is answered before the close
Terminate_answers(s, line) ==
    /\ pc[s] = "loop"
    /\ ~Decrypts(s, line)
    /\ Read(s, line)
    /\ Finally(s)
    /\ wire' = send_json(wire, secure_channel, s, Response("error", "Invalid message format."))
    /\ UNCHANGED <<sessionFields, secure_channel, local, store, routed>>

\* phase 2: EOF, a transport error, a line over the limit, a line that is not
\* JSON, an envelope that is not an object or has no payload, a blob that
\* does not decrypt, a plaintext that is not a JSON object: the task leaves
\* the loop and runs the finally block
Terminate(s, line) ==
    /\ pc[s] = "loop"
    /\ ~Decrypts(s, line)
    /\ Read(s, line)
    /\ Finally(s)
    /\ UNCHANGED <<sessionFields, secure_channel, wire, local, store, routed>>

\* --------------------------------------------- ClientSession: unauthenticated
\* mutant: the dispatcher never asks for a login
requires_login_never(s) == FALSE

\* mutant: the dispatcher asks for a login whatever the session's state
requires_login_always(s) == TRUE

\* handle_connection: if not self.is_authenticated
requires_login(s) == ~is_authenticated[s]

Dispatch(s, line, types) ==
    /\ pc[s] = "loop"
    /\ Decrypts(s, line)
    /\ Inner(s, line).type \in types
    /\ Read(s, line)

\* mutant: a login is performed whatever the session's state
Login_any_state(s, line) ==
    /\ Dispatch(s, line, {"login"})
    /\ LET payload == Inner(s, line).payload IN
       IF HasKey(payload, "email") /\ HasKey(payload, "password")
       THEN /\ local' = [local EXCEPT ![s] = [email |-> payload.email,
                                              password |-> payload.password]]
            /\ pc' = [pc EXCEPT ![s] = "authenticating"]
            /\ UNCHANGED wire
       ELSE /\ wire' = send_json(wire, secure_channel, s,
                          Response("error", "Malformed login envelope."))
            /\ UNCHANGED <<pc, local>>
    /\ UNCHANGED <<sessionFields, secure_channel, online_users, store, routed>>

\* _perform_login up to the call of Authenticator.authenticate
Login(s, line) ==
    /\ requires_login(s)
    /\ Dispatch(s, line, {"login"})
    /\ LET payload == Inner(s, line).payload IN
       IF HasKey(payload, "email") /\ HasKey(payload, "password")
       THEN /\ local' = [local EXCEPT ![s] = [email |-> payload.email,
                                              password |-> payload.password]]
            /\ pc' = [pc EXCEPT ![s] = "authenticating"]
            /\ UNCHANGED wire
       ELSE /\ wire' = send_json(wire, secure_channel, s,
                          Response("error", "Malformed login envelope."))
            /\ UNCHANGED <<pc, local>>
    /\ UNCHANGED <<sessionFields, secure_channel, online_users, store, routed>>

\* mutant: a login with an email that has no account gets an answer of its own
LoginDone_oracle(s) ==
    /\ pc[s] = "authenticating"
    /\ LET user_data == authenticate(users, local[s].email, local[s].password) IN
       IF user_data # {}
       THEN LET row == CHOOSE r \in user_data : TRUE IN
            /\ user_id' = [user_id EXCEPT ![s] = row.id]
            /\ full_name' = [full_name EXCEPT ![s] = row.full_name]
            /\ email' = [email EXCEPT ![s] = row.email]
            /\ is_authenticated' = [is_authenticated EXCEPT ![s] = TRUE]
            /\ online_users' =
                  IF drain_raises(s)
                  THEN unregister_user(register_user(online_users, row.id, s), row.id)
                  ELSE register_user(online_users, row.id, s)
            /\ wire' = send_json(wire, secure_channel, s,
                  [type |-> "response",
                   payload |-> [status |-> "ok",
                                message |-> "Login successful. Welcome, " \o row.full_name \o "!",
                                user_info |-> [id |-> row.id, full_name |-> row.full_name,
                                               email |-> row.email]]])
       ELSE /\ wire' = send_json(wire, secure_channel, s,
                          IF get_user_by_email(users, NormalizeEmail(local[s].email)) = {}
                          THEN Response("error", "Login failed. No such user.")
                          ELSE Response("error", "Login failed. Invalid credentials."))
            /\ UNCHANGED <<sessionFields, online_users>>
    /\ pc' = after_send(s)
    /\ local' = [local EXCEPT ![s] = NoLocal]
    /\ UNCHANGED <<secure_channel, store, nread, last, routed, transport>>

\* _perform_login from the return of Authenticator.authenticate
LoginDone(s) ==
    /\ pc[s] = "authenticating"
    /\ LET user_data == authenticate(users, local[s].email, local[s].password) IN
       IF user_data # {}
       THEN LET row == CHOOSE r \in user_data : TRUE IN
            /\ user_id' = [user_id EXCEPT ![s] = row.id]
            /\ full_name' = [full_name EXCEPT ![s] = row.full_name]
            /\ email' = [email EXCEPT ![s] = row.email]
            /\ is_authenticated' = [is_authenticated EXCEPT ![s] = TRUE]
            /\ online_users' =
                  IF drain_raises(s)
                  THEN unregister_user(register_user(online_users, row.id, s), row.id)
                  ELSE register_user(online_users, row.id, s)
            /\ wire' = send_json(wire, secure_channel, s,
                  [type |-> "response",
                   payload |-> [status |-> "ok",
                                message |-> "Login successful. Welcome, " \o row.full_name \o "!",
                                user_info |-> [id |-> row.id, full_name |-> row.full_name,
                                               email |-> row.email]]])
       ELSE /\ wire' = send_json(wire, secure_channel, s,
                          Response("error", "Login failed. Invalid credentials."))
            /\ UNCHANGED <<sessionFields, online_users>>
    /\ pc' = after_send(s)
    /\ local' = [local EXCEPT ![s] = NoLocal]
    /\ UNCHANGED <<secure_channel, store, nread, last, routed, transport>>

\* _perform_signup up to the call of Database.add_user
Signup(s, line, salt) ==
    /\ requires_login(s)
    /\ Dispatch(s, line, {"signup"})
    /\ LET payload == Inner(s, line).payload IN
       IF HasKey(payload, "full_name") /\ HasKey(payload, "email") /\ HasKey(payload, "password")
       THEN /\ local' = [local EXCEPT ![s] = [full_name |-> payload.full_name,
                                              typed_email |-> payload.email,
                                              typed_password |-> payload.password,
                                              email |-> NormalizeEmail(payload.email),
                                              password |-> hash_password(payload.password, salt)]]
            /\ pc' = [pc EXCEPT ![s] = "adding"]
            /\ UNCHANGED wire
       ELSE /\ wire' = send_json(wire, secure_channel, s,
                          Response("error", "Malformed sign-up envelope."))
            /\ UNCHANGED <<pc, local>>
    /\ UNCHANGED <<sessionFields, secure_channel, online_users, store, routed>>

\* mutant: a successful sign-up logs the new user in
SignupDone_autologin(s) ==
    /\ pc[s] = "adding"
    /\ users' = add_user(users, local[s].full_name, local[s].email, local[s].password)
    /\ wire' = send_json(wire, secure_channel, s,
                  IF add_user_ok(users, local[s].email)
                  THEN Response("ok", "Sign-up successful. Please login to authenticate.")
                  ELSE Response("error", "Sign-up failed. Email already exists."))
    /\ IF add_user_ok(users, local[s].email)
       THEN /\ user_id' = [user_id EXCEPT ![s] = _generate_user_id(local[s].email)]
            /\ full_name' = [full_name EXCEPT ![s] = local[s].full_name]
            /\ email' = [email EXCEPT ![s] = local[s].email]
            /\ is_authenticated' = [is_authenticated EXCEPT ![s] = TRUE]
            /\ online_users' = register_user(online_users, user_id'[s], s)
       ELSE UNCHANGED <<sessionFields, online_users>>
    /\ pc' = [pc EXCEPT ![s] = "loop"]
    /\ local' = [local EXCEPT ![s] = NoLocal]
    /\ UNCHANGED <<secure_channel, messages, nread, last, routed, transport>>

\* _perform_signup from the return of Database.add_user
SignupDone(s) ==
    /\ pc[s] = "adding"
    /\ users' = add_user(users, local[s].full_name, local[s].email, local[s].password)
    /\ wire' = send_json(wire, secure_channel, s,
                  IF add_user_ok(users, local[s].email)
                  THEN Response("ok", "Sign-up successful. Please login to authenticate.")
                  ELSE Response("error", "Sign-up failed. Email already exists."))
    /\ pc' = after_send(s)
    /\ local' = [local EXCEPT ![s] = NoLocal]
    /\ UNCHANGED <<sessionFields, secure_channel, online_users, messages, nread, last, routed,
                   transport>>

InnerTypes == {e.type : e \in InnerEnvelopes}

\* any other envelope while unauthenticated
NotAuthenticated(s, line) ==
    /\ requires_login(s)
    /\ Dispatch(s, line, InnerTypes \ {"login", "signup"})
    /\ wire' = send_json(wire, secure_channel, s,
                  Response("error", "Not authenticated. Send 'login' or 'signup'."))
    /\ UNCHANGED <<pc, sessionFields, secure_channel, local, online_users, store, routed>>

\* ----------------------------------------------- ClientSession: authenticated
\* The session's state in the terms of the session state machine.
State(s) ==
    IF pc[s] = "new" THEN "NONE"
    ELSE IF pc[s] = "closed" THEN "CLOSED"
    ELSE IF secure_channel[s] = NoChannel THEN "HANDSHAKE"
    ELSE IF is_authenticated[s] THEN "AUTH"
    ELSE "UNAUTH"

\* the open, authenticated sessions that hold a user id
Holders(uid) == {t \in Sessions : State(t) = "AUTH" /\ user_id[t] = uid}

\* mutant: a sender_id in the payload is preferred to the session's
route_sender_id_from_payload(s, payload) ==
    IF HasKey(payload, "sender_id") THEN payload.sender_id ELSE user_id[s]

\* router.py: sender_id = sender_session.user_id
route_sender_id(s, payload) == user_id[s]

\* mutant: the lookup result is ignored and every chat is stored
recipient_online_never(recipient_session) == recipient_session # recipient_session

\* router.py: if recipient_session:
recipient_online(recipient_session) == recipient_session # NoSession

\* mutant: the sender's name is not filled in
delivery_envelope_unnamed(s, sender_id, message_text) ==
    [type |-> "new_message",
     payload |-> [sender_id |-> sender_id, sender_name |-> NoName, text |-> message_text]]

\* router.py: the envelope delivered to an online recipient
delivery_envelope(s, sender_id, message_text) ==
    [type |-> "new_message",
     payload |-> [sender_id |-> sender_id, sender_name |-> full_name[s],
                  text |-> message_text]]

\* envelope['payload'], payload['recipient_id'] and payload['text'] raise
\* neither KeyError nor TypeError
chat_extracts(envelope) ==
    /\ HasKey(envelope, "payload")
    /\ is_object(envelope.payload)
    /\ HasKey(envelope.payload, "recipient_id")
    /\ HasKey(envelope.payload, "text")

\* mutant: the store is left to a task of its own and the handler returns
awaits_store_detached(s) == pc

\* route_chat_message: await self.server.db.store_message(...)
awaits_store(s) == [pc EXCEPT ![s] = "storing"]

\* Router.route_chat_message up to the call of Database.store_message, or up
\* to the await of the recipient's writer.drain() when that does not return at
\* once.  When
\* the recipient's connection is lost, recipient_session.send_json raises
\* ConnectionResetError in the sender's task; route_chat_message does not
\* catch it and handle_connection closes the sender's session.  When
\* the text is no str, store_message raises AttributeError before its first
\* await; route_chat_message does not catch it and handle_connection closes
\* the sender's session.
RouteChat(s, line) ==
    /\ ~requires_login(s)
    /\ Dispatch(s, line, {"chat"})
    /\ IF chat_extracts(Inner(s, line))
       THEN LET payload == Inner(s, line).payload
                sender_id == route_sender_id(s, payload)
                recipient_session == get_session_by_id(online_users, payload.recipient_id)
            IN  IF recipient_online(recipient_session)
                THEN /\ wire' = send_json(wire, secure_channel, recipient_session,
                                  delivery_envelope(s, sender_id, payload.text))
                     /\ routed' = Append(routed,
                                  [from |-> s, payload |-> payload, found |-> recipient_session,
                                   holders |-> Holders(payload.recipient_id),
                                   at |-> IF drain_raises(recipient_session) THEN 0
                                          ELSE Len(wire'[recipient_session]),
                                   row |-> 0])
                     /\ IF drain_raises(recipient_session)
                        THEN Finally(s) /\ UNCHANGED local
                        ELSE IF drain_blocks(recipient_session)
                        THEN /\ pc' = [pc EXCEPT ![s] = "draining"]
                             /\ local' = [local EXCEPT ![s] = [waits_on |-> recipient_session]]
                             /\ UNCHANGED online_users
                        ELSE UNCHANGED <<pc, online_users, local>>
                ELSE /\ routed' = Append(routed,
                                  [from |-> s, payload |-> payload, found |-> recipient_session,
                                   holders |-> Holders(payload.recipient_id),
                                   at |-> 0, row |-> 0])
                     /\ IF encode_ok(payload.text)
                        THEN /\ local' = [local EXCEPT ![s] =
                                            [sender_id |-> sender_id,
                                             recipient_id |-> payload.recipient_id,
                                             text |-> payload.text,
                                             call |-> Len(routed) + 1]]
                             /\ pc' = awaits_store(s)
                             /\ UNCHANGED <<wire, online_users>>
                        ELSE /\ Finally(s)
                             /\ UNCHANGED <<wire, local>>
       ELSE /\ wire' = send_json(wire, secure_channel, s,
                          Response("error", "Malformed chat envelope."))
            /\ UNCHANGED <<pc, local, routed, online_users>>
    /\ UNCHANGED <<sessionFields, secure_channel, store>>

\* Router.route_chat_message from the return of recipient_session.send_json:
\* the sender's task has waited in the recipient's writer.drain()
DrainDone(s) ==
    /\ pc[s] = "draining"
    /\ drain_raises(local[s].waits_on) \/ ~drain_blocks(local[s].waits_on)
    /\ IF drain_raises(local[s].waits_on)
       THEN Finally(s)
       ELSE pc' = [pc EXCEPT ![s] = "loop"] /\ UNCHANGED online_users
    /\ local' = [local EXCEPT ![s] = NoLocal]
    /\ UNCHANGED <<sessionFields, secure_channel, wire, store, nread, last, routed, transport>>

\* Router.route_chat_message from the return of Database.store_message
StoreDone(s) ==
    /\ pc[s] = "storing"
    /\ messages' = store_message(messages, local[s].sender_id, local[s].recipient_id,
                                 local[s].text)
    /\ wire' = send_json(wire, secure_channel, s,
                  Response("info", "Recipient is offline. Message stored."))
    /\ routed' = [routed EXCEPT ![local[s].call].row = Len(messages')]
    /\ pc' = after_send(s)
    /\ online_users' = IF drain_raises(s) THEN unregister_user(online_users, user_id[s])
                                           ELSE online_users
    /\ local' = [local EXCEPT ![s] = NoLocal]
    /\ UNCHANGED <<sessionFields, secure_channel, users, nread, last, transport>>

\* _process_message, type whoisonline
WhoIsOnline(s, line) ==
    /\ ~requires_login(s)
    /\ Dispatch(s, line, {"whoisonline"})
    /\ wire' = send_json(wire, secure_channel, s,
                  [type |-> "response",
                   payload |-> [status |-> "ok", users |-> get_online_users_list(online_users)]])
    /\ UNCHANGED <<pc, sessionFields, secure_channel, local, online_users, store, routed>>

\* _process_message, any other type
UnknownCommand(s, line) ==
    /\ ~requires_login(s)
    /\ Dispatch(s, line, InnerTypes \ {"chat", "whoisonline"})
    /\ wire' = send_json(wire, secure_channel, s,
                  Response("error", "Unknown command type: " \o Inner(s, line).type))
    /\ UNCHANGED <<pc, sessionFields, secure_channel, local, online_users, store, routed>>

\* ---------------------------------------------------------- specification
\* the lines the client of s may send on its established connection
Lines(s) ==
    IF pc[s] = "loop" /\ nread[s] < MaxLines
    THEN IF conn_lost[s] THEN {Reset} ELSE LoopLines(secure_channel[s])
    ELSE {}

Next ==
    \/ \E s \in Sessions : Accept(s) /\ UNCHANGED env
    \/ \E s \in Sessions : \E line \in FirstLines(s) : Handshake(s, line) /\ UNCHANGED env
    \/ \E s \in Sessions : \E line \in Lines(s) : Terminate(s, line) /\ UNCHANGED env
    \/ \E s \in Sessions : \E line \in Lines(s) : Login(s, line) /\ UNCHANGED env
    \/ \E s \in Sessions : LoginDone(s) /\ UNCHANGED env
    \/ \E s \in Sessions : \E line \in Lines(s) : \E salt \in Salts : Signup(s, line, salt) /\ UNCHANGED env
    \/ \E s \in Sessions : SignupDone(s) /\ UNCHANGED env
    \/ \E s \in Sessions : \E line \in Lines(s) : NotAuthenticated(s, line) /\ UNCHANGED env
    \/ \E s \in Sessions : \E line \in Lines(s) : RouteChat(s, line) /\ UNCHANGED env
    \/ \E s \in Sessions : StoreDone(s) /\ UNCHANGED env
    \/ \E s \in Sessions : \E line \in Lines(s) : WhoIsOnline(s, line) /\ UNCHANGED env
    \/ \E s \in Sessions : \E line \in Lines(s) : UnknownCommand(s, line) /\ UNCHANGED env

Spec == Init /\ [][Next]_vars

\* The peer of an established connection goes away (reset, or closed with
\* data in flight): the transport calls connection_lost at once, the
\* session's task learns of it when it next runs.
ConnectionLost(s) ==
    /\ pc[s] \in {"loop", "authenticating", "adding", "storing"}
    /\ ~conn_lost[s]
    /\ conn_lost' = [conn_lost EXCEPT ![s] = TRUE]
    /\ UNCHANGED <<pc, sessionFields, secure_channel, wire, local, online_users, store, nread,
                   last, routed, stream, sending>>

NextLost ==
    \/ Next
    \/ \E s \in Sessions : ConnectionLost(s) /\ UNCHANGED env

\* the server with clients whose connections may be lost at any moment
SpecLost == Init /\ [][NextLost]_vars

\* ------------------------------------------- two users at their keyboards
\* Alice and Bob are logged in, each on a connection of their own: connection 2
\* signed Bob up and logged in, then connection 1 logged in as Alice.  From
\* here each client sends chats, whoisonline and other lines.
BobRow ==
    [id |-> _generate_user_id(<<"b">>), full_name |-> "Bob", email |-> <<"b">>,
     password |-> hash_password("p2", "s1")]

Welcome(row) ==
    [type |-> "response",
     payload |-> [status |-> "ok",
                  message |-> "Login successful. Welcome, " \o row.full_name \o "!",
                  user_info |-> [id |-> row.id, full_name |-> row.full_name,
                                 email |-> row.email]]]

\* the row each connection is logged in with
RowOf(s) == IF s = 1 THEN AliceRow ELSE BobRow

Chatting == {s \in Sessions : s <= 2}

InitOrder ==
    /\ pc = [s \in Sessions |-> IF s \in Chatting THEN "loop" ELSE "new"]
    /\ user_id = [s \in Sessions |-> IF s \in Chatting THEN RowOf(s).id ELSE None]
    /\ full_name = [s \in Sessions |-> IF s \in Chatting THEN RowOf(s).full_name ELSE NoName]
    /\ email = [s \in Sessions |-> IF s \in Chatting THEN RowOf(s).email ELSE None]
    /\ is_authenticated = [s \in Sessions |-> s \in Chatting]
    /\ secure_channel = [s \in Sessions |-> IF s \in Chatting THEN ClientKey(s) ELSE NoChannel]
    /\ wire = [s \in Sessions |->
                 IF s \in Chatting
                 THEN <<json_dumps([type |-> "handshake_start",
                                    payload |-> [public_key |-> public_key_pem]]),
                        json_dumps(Sealed(ClientKey(s),
                                     [type |-> "handshake_complete",
                                      payload |-> [message |-> "Secure channel established."]]))>>
                      \o (IF s = 1 THEN <<>>
                          ELSE <<json_dumps(Sealed(ClientKey(s),
                                   Response("ok",
                                            "Sign-up successful. Please login to authenticate.")))>>)
                      \o <<json_dumps(Sealed(ClientKey(s), Welcome(RowOf(s))))>>
                 ELSE <<>>]
    /\ local = [s \in Sessions |-> NoLocal]
    /\ online_users = register_user(register_user(<<>>, BobRow.id, 2), AliceRow.id, 1)
    /\ users = {AliceRow, BobRow}
    /\ messages = <<>>
    /\ nread = [s \in Sessions |-> 0]
    /\ last = [session |-> 1,
               line |-> Line(json_dumps(Sealed(ClientKey(1),
                           [type |-> "login",
                            payload |-> [email |-> <<"a">>, password |-> "p1"]])))]
    /\ routed = <<>>
    /\ conn_lost = [s \in Sessions |-> FALSE]
    /\ stream = [s \in Sessions |-> <<>>]
    /\ sending = [s \in Sessions |-> NoLocal]
    /\ InitEnv

\* what the two type.  Bob: chats with two texts to Alice, a chat to a user
\* who is not online, a command the server does not know.  Alice: a chat to
\* Bob, whoisonline.  Either may close the connection.
OrderEnvelopes(s) ==
    IF s = 1
    THEN {[type |-> "chat", payload |-> [recipient_id |-> BobRow.id, text |-> [str |-> "hi"]]],
          [type |-> "whoisonline", payload |-> <<>>]}
    ELSE {[type |-> "chat", payload |-> [recipient_id |-> AliceRow.id, text |-> t]] :
             t \in {[str |-> "hi"], [str |-> "yo"]}}
         \cup {[type |-> "chat", payload |-> [recipient_id |-> UnknownId, text |-> [str |-> "hi"]]],
               [type |-> "ping", payload |-> <<>>]}

OrderLines(s) ==
    IF pc[s] = "loop" /\ nread[s] < MaxLines
    THEN {Eof} \cup {Line(json_dumps(Sealed(secure_channel[s], e))) : e \in OrderEnvelopes(s)}
    ELSE {}

NextOrder ==
    \/ \E s \in Sessions : \E line \in OrderLines(s) : Terminate(s, line) /\ UNCHANGED env
    \/ \E s \in Sessions : \E line \in OrderLines(s) : RouteChat(s, line) /\ UNCHANGED env
    \/ \E s \in Sessions : StoreDone(s) /\ UNCHANGED env
    \/ \E s \in Sessions : \E line \in OrderLines(s) : WhoIsOnline(s, line) /\ UNCHANGED env
    \/ \E s \in Sessions : \E line \in OrderLines(s) : UnknownCommand(s, line) /\ UNCHANGED env

SpecOrder == InitOrder /\ [][NextOrder]_vars

\* ------------------------------------------------- send_json, byte by byte
\* Both handshakes are done.  From here the tasks call send_json: a session's
\* own task on its own connection (a response), any task on the connection of
\* the recipient of a chat (the routed new_message).  A task runs from one
\* await to the next without another task running in between.
GoodKeyLine(s) ==
    Line(json_dumps([type |-> "key_exchange",
                     payload |-> [key |-> RsaB64(ServerRsa, ClientKey(s))]]))

InitWriters ==
    /\ pc = [s \in Sessions |-> "loop"]
    /\ user_id = [s \in Sessions |-> None]
    /\ full_name = [s \in Sessions |-> NoName]
    /\ email = [s \in Sessions |-> None]
    /\ is_authenticated = [s \in Sessions |-> FALSE]
    /\ secure_channel = [s \in Sessions |-> ClientKey(s)]
    /\ wire = [s \in Sessions |->
                 <<json_dumps([type |-> "handshake_start",
                               payload |-> [public_key |-> public_key_pem]]),
                   json_dumps(Sealed(ClientKey(s),
                                     [type |-> "handshake_complete",
                                      payload |-> [message |-> "Secure channel established."]]))>>]
    /\ local = [s \in Sessions |-> NoLocal]
    /\ online_users = <<>>
    /\ users = {AliceRow}
    /\ messages = <<>>
    /\ nread = [s \in Sessions |-> 0]
    /\ last = [session |-> NumSessions, line |-> GoodKeyLine(NumSessions)]
    /\ routed = <<>>
    /\ conn_lost = [s \in Sessions |-> FALSE]
    /\ stream = [s \in Sessions |-> <<>>]
    /\ sending = [s \in Sessions |-> NoLocal]
    /\ InitEnv

\* the bytes of the line of the n-th frame: the envelope's opening, the base64
\* blob (which begins with the frame's own random nonce), the closing and the
\* newline
FrameBytes(n) ==
    <<[frame |-> n, part |-> "open"], [frame |-> n, part |-> "blob"],
      [frame |-> n, part |-> "newline"]>>

\* the frames encrypted so far
Encrypted ==
    UNION {{stream[s][i].frame : i \in DOMAIN stream[s]} : s \in Sessions}
    \cup UNION {{b[i].frame : i \in DOMAIN b} :
                   b \in UNION {{sending[t].rest[j] : j \in DOMAIN sending[t].rest} :
                                   t \in {u \in Sessions : sending[u] # NoLocal}}}

\* mutant: the newline is written by a second call, after a drain
writer_writes_newline_apart(bytes) ==
    <<SubSeq(bytes, 1, Len(bytes) - 1), <<bytes[Len(bytes)]>>>>

\* send_json: the buffers passed to writer.write, each call followed by an
\* await of drain; the line is written by one call
writer_writes(bytes) == <<bytes>>

\* send_json from its call to the await of writer.drain
SendJsonWrite(t, r) ==
    /\ sending[t] = NoLocal
    /\ secure_channel[r] # NoChannel
    /\ Cardinality(Encrypted) < MaxFrames
    /\ LET buffers == writer_writes(FrameBytes(Cardinality(Encrypted) + 1)) IN
          /\ stream' = [stream EXCEPT ![r] = @ \o Head(buffers)]
          /\ sending' = [sending EXCEPT ![t] = [to |-> r, rest |-> Tail(buffers)]]
    /\ UNCHANGED <<pc, sessionFields, secure_channel, wire, local, online_users, store, nread,
                   last, routed, conn_lost>>

\* writer.drain returns: the next write of the call, or its return
SendJsonDrained(t) ==
    /\ sending[t] # NoLocal
    /\ IF sending[t].rest = <<>>
       THEN /\ sending' = [sending EXCEPT ![t] = NoLocal]
            /\ UNCHANGED stream
       ELSE /\ stream' = [stream EXCEPT ![sending[t].to] = @ \o Head(sending[t].rest)]
            /\ sending' = [sending EXCEPT ![t].rest = Tail(@)]
    /\ UNCHANGED <<pc, sessionFields, secure_channel, wire, local, online_users, store, nread,
                   last, routed, conn_lost>>

NextWriters ==
    \/ \E t \in Sessions : \E r \in Sessions : SendJsonWrite(t, r) /\ UNCHANGED env
    \/ \E t \in Sessions : SendJsonDrained(t) /\ UNCHANGED env

SpecWriters == InitWriters /\ [][NextWriters]_vars

\* ------------------------------------------------------------- properties
\* what is on the wires, read with knowledge of every key
Outer(s, j) == json_loads(wire[s][j])
IsSealed(s, j) == Outer(s, j).type = "encrypted_payload"
Opened(s, j) == json_loads(Outer(s, j).payload.pt)
SealedFrames ==
    UNION {{<<s, j>> : j \in {k \in DOMAIN wire[s] : IsSealed(s, k)}} : s \in Sessions}
NewMessageFrames == {f \in SealedFrames : Opened(f[1], f[2]).type = "new_message"}
Calls == DOMAIN routed
Delivered == {i \in Calls : routed[i].at # 0}
Stored == {i \in Calls : routed[i].row # 0}
AuthSessions == {s \in Sessions : State(s) = "AUTH"}

\* C1: the sender_id of every delivered new_message and of every stored row is
\* the user_id of the session that sent the chat, whatever its payload says;
\* every new_message and every row comes from such a chat.
SenderNotSpoofed ==
    /\ \A i \in Delivered :
          /\ <<routed[i].found, routed[i].at>> \in NewMessageFrames
          /\ Opened(routed[i].found, routed[i].at).payload.sender_id = user_id[routed[i].from]
          /\ is_authenticated[routed[i].from]
    /\ \A i \in Stored :
          /\ routed[i].row <= Len(messages)
          /\ messages[routed[i].row].sender_id = user_id[routed[i].from]
          /\ is_authenticated[routed[i].from]
    /\ \A f \in NewMessageFrames : \E i \in Delivered : <<routed[i].found, routed[i].at>> = f
    /\ \A r \in DOMAIN messages : \E i \in Stored : routed[i].row = r

\* C1 witness: a chat that named another user as its sender was delivered, and
\* one was stored
SpoofAttemptRouted ==
    /\ \E i \in Delivered :
          /\ HasKey(routed[i].payload, "sender_id")
          /\ routed[i].payload.sender_id # user_id[routed[i].from]
    /\ \E i \in Stored :
          /\ HasKey(routed[i].payload, "sender_id")
          /\ routed[i].payload.sender_id # user_id[routed[i].from]

\* the call of store_message of chat i has not returned yet
Storing(i) == pc[routed[i].from] = "storing" /\ local[routed[i].from].call = i

\* C2: a well-formed chat whose recipient was found online is sent to that session and
\* never stored; a chat whose recipient was not found is stored exactly once
\* and sent to nobody; rows and new_message frames are one per chat.
DeliveredXorStored ==
    /\ \A i \in Calls :
          IF routed[i].found # NoSession
          THEN /\ i \in Delivered
               /\ i \notin Stored
               /\ <<routed[i].found, routed[i].at>> \in NewMessageFrames
               /\ Opened(routed[i].found, routed[i].at).payload.text = routed[i].payload.text
          ELSE /\ i \notin Delivered
               /\ HasKey(routed[i].payload.text, "str") => (i \in Stored) = ~Storing(i)
               /\ i \in Stored =>
                     /\ routed[i].row <= Len(messages)
                     /\ messages[routed[i].row].recipient_id = routed[i].payload.recipient_id
                     /\ messages[routed[i].row].payload_blob =
                            [utf8 |-> routed[i].payload.text.str]
    /\ \A i, j \in Stored : routed[i].row = routed[j].row => i = j
    /\ \A i, j \in Delivered :
          <<routed[i].found, routed[i].at>> = <<routed[j].found, routed[j].at>> => i = j
    /\ Len(messages) = Cardinality(Stored)
    /\ Cardinality(NewMessageFrames) = Cardinality(Delivered)

\* C2 witness: one chat has been delivered and another stored
OneDeliveredOneStored ==
    /\ \E i \in Delivered : routed[i].found # NoSession
    /\ \E i \in Stored : routed[i].found = NoSession /\ Len(messages) = 1

\* C3 as claimed: the registry has as many entries as there are AUTH sessions
RegistryCardinality == Len(online_users) = Cardinality(AuthSessions)

\* sessions that have logged in, open or closed, under pairwise different ids
NoSharedUserId ==
    \A s, t \in Sessions :
        is_authenticated[s] /\ is_authenticated[t] /\ user_id[s] = user_id[t] => s = t

\* C3 amended: the registry never has more entries than there are AUTH
\* sessions, and has as many as long as no two sessions logged in as the same
\* user.
RegistryCardinalityAmended ==
    /\ Len(online_users) <= Cardinality(AuthSessions)
    /\ NoSharedUserId => Len(online_users) = Cardinality(AuthSessions)

\* C3 witness: two sessions are AUTH under one user id and the registry has
\* one entry
ReloginSharesEntry ==
    \E s, t \in AuthSessions : s # t /\ user_id[s] = user_id[t] /\ Len(online_users) = 1

\* C4: the registry has at most one entry per user_id, and every entry's
\* session is authenticated under the entry's key.
RegistryEntriesValid ==
    /\ \A i, j \in DOMAIN online_users :
          online_users[i].user_id = online_users[j].user_id => i = j
    /\ \A i \in DOMAIN online_users :
          /\ online_users[i].session \in Sessions
          /\ is_authenticated[online_users[i].session]
          /\ user_id[online_users[i].session] = online_users[i].user_id

\* C4 witness: two users are registered, each by its own session
TwoUsersRegistered ==
    /\ Len(online_users) = 2
    /\ online_users[1].session # online_users[2].session

\* C5: no registry entry refers to a closed session, and the registry is empty
\* when no session is AUTH.
TeardownUnregisters ==
    /\ \A s \in Sessions :
          pc[s] = "closed" => \A i \in DOMAIN online_users : online_users[i].session # s
    /\ AuthSessions = {} => online_users = <<>>

\* C5 witness: the only session that logged in has closed after a decrypt
\* failure
LoggedInClientGone ==
    \E s \in Sessions :
        /\ pc[s] = "closed" /\ is_authenticated[s]
        /\ \A t \in Sessions \ {s} : ~is_authenticated[t]
        /\ last.session = s /\ last.line.k = "line" /\ json_ok(last.line.text)
        /\ online_users = <<>>

\* C6 as claimed: a chat is stored only when no open authenticated session
\* held the recipient id when it was routed
StoredOnlyWhenNobodyOnline == \A i \in Stored : routed[i].holders = {}

HandshakeStart == [type |-> "handshake_start", payload |-> [public_key |-> public_key_pem]]
HandshakeComplete ==
    [type |-> "handshake_complete", payload |-> [message |-> "Secure channel established."]]

\* C7: on every connection the first line written is the plaintext
\* handshake_start and every later line is an encrypted_payload envelope whose
\* blob was made with the connection's own key.
EncryptedAfterHandshake ==
    \A s \in Sessions : \A j \in DOMAIN wire[s] :
        /\ json_ok(wire[s][j])
        /\ j = 1 => Outer(s, j) = HandshakeStart
        /\ j > 1 =>
              /\ DOMAIN Outer(s, j) = {"type", "payload"}
              /\ Outer(s, j).type = "encrypted_payload"
              /\ DOMAIN Outer(s, j).payload = {"b64", "whole", "key", "tag", "pt"}
              /\ Outer(s, j).payload.b64 /\ Outer(s, j).payload.whole /\ Outer(s, j).payload.tag
              /\ Outer(s, j).payload.key = secure_channel[s]
              /\ secure_channel[s] # NoChannel

\* C7 witness: a chat of one session was delivered on the connection of
\* another, which has a different key
RoutedUnderRecipientKey ==
    \E i \in Delivered :
        /\ routed[i].found # routed[i].from
        /\ secure_channel[routed[i].found] # secure_channel[routed[i].from]

\* a first line that carries an acceptable key exchange
GoodKeyExchange(line) ==
    /\ line.k = "line"
    /\ line.text.json
    /\ {"type", "payload"} \subseteq DOMAIN line.text.val
    /\ line.text.val.type = "key_exchange"
    /\ "key" \in DOMAIN line.text.val.payload
    /\ line.text.val.payload.key.b64
    /\ line.text.val.payload.key.rsa = ServerRsa
    /\ line.text.val.payload.key.key.len = KeyLen

HandshakeOrderState ==
    \A s \in Sessions :
        /\ (pc[s] = "new") = (wire[s] = <<>>)
        /\ wire[s] # <<>> => Outer(s, 1) = HandshakeStart
        /\ (Len(wire[s]) >= 2) = (secure_channel[s] # NoChannel)
        /\ Len(wire[s]) >= 2 => IsSealed(s, 2) /\ Opened(s, 2) = HandshakeComplete
        /\ \A j \in DOMAIN wire[s] : j > 2 => Opened(s, j).type # "handshake_complete"
        /\ secure_channel[s] = NoChannel =>
              /\ pc[s] \in {"new", "await_key", "closed"}
              /\ ~is_authenticated[s] /\ user_id[s] = None
              /\ DOMAIN local[s] = {}
              /\ \A i \in Calls : routed[i].from # s
              /\ \A i \in DOMAIN online_users : online_users[i].session # s

HandshakeOrderStep ==
    \A s \in Sessions :
        /\ pc[s] = "await_key" => pc'[s] \in {"await_key", "loop", "closed"}
        /\ secure_channel[s] # secure_channel'[s] =>
              /\ pc[s] = "await_key" /\ pc'[s] = "loop"
              /\ nread[s] = 0 /\ nread'[s] = 1 /\ last'.session = s
              /\ GoodKeyExchange(last'.line)
              /\ secure_channel'[s] = last'.line.text.val.payload.key.key
              /\ wire'[s] = Append(wire[s],
                    json_dumps([type |-> "encrypted_payload",
                                payload |-> [b64 |-> TRUE, whole |-> TRUE,
                                             key |-> secure_channel'[s],
                                             tag |-> TRUE, pt |-> json_dumps(HandshakeComplete)]]))

\* C8: handshake_start is the first line written; handshake_complete is
\* written only in the step that reads a key_exchange carrying a valid key, and
\* is the first encrypted line; before that step the session dispatches
\* nothing: it holds no user, no pending handler, no routed chat and no
\* registry entry, and it leaves HANDSHAKE only for UNAUTH or CLOSED.
HandshakeOrdering == []HandshakeOrderState /\ [][HandshakeOrderStep]_vars

\* C8 witness: a session has just completed its handshake
HandshakeJustCompleted ==
    \E s \in Sessions :
        /\ State(s) = "UNAUTH" /\ Len(wire[s]) = 2 /\ nread[s] = 1
        /\ last.session = s /\ GoodKeyExchange(last.line)

\* s reads a line in this step
Reads(s) == nread'[s] = nread[s] + 1 /\ last'.session = s

\* C9: a first line that is not an acceptable key exchange closes the session
\* with nothing written, no channel and no authentication; a closed session
\* stays closed, reads nothing more and gets nothing more written.
HandshakeFailureStep ==
    \A s \in Sessions :
        /\ pc[s] = "await_key" /\ Reads(s) /\ ~GoodKeyExchange(last'.line) =>
              /\ pc'[s] = "closed"
              /\ wire' = wire
              /\ secure_channel'[s] = NoChannel
              /\ ~is_authenticated'[s]
              /\ online_users' = online_users
        /\ pc[s] = "closed" =>
              /\ pc'[s] = "closed"
              /\ wire'[s] = wire[s]
              /\ secure_channel'[s] = secure_channel[s]
              /\ is_authenticated'[s] = is_authenticated[s]
              /\ nread'[s] = nread[s]

HandshakeFailureCloses == [][HandshakeFailureStep]_vars

\* C9 witness: a key exchange with a 16-byte key has closed a session
ShortKeyRefused ==
    \E s \in Sessions :
        /\ pc[s] = "closed" /\ nread[s] = 1 /\ Len(wire[s]) = 1 /\ last.session = s
        /\ last.line.k = "line" /\ last.line.text.json
        /\ {"type", "payload"} \subseteq DOMAIN last.line.text.val
        /\ last.line.text.val.type = "key_exchange"
        /\ "key" \in DOMAIN last.line.text.val.payload
        /\ last.line.text.val.payload.key.rsa = ServerRsa
        /\ last.line.text.val.payload.key.b64
        /\ last.line.text.val.payload.key.key.len # KeyLen

\* an encrypted envelope whose blob does not pass decryption under s's key
FailsDecryption(s, line) ==
    /\ line.k = "line"
    /\ line.text.json
    /\ "payload" \in DOMAIN line.text.val
    /\ \/ ~line.text.val.payload.b64
       \/ ~line.text.val.payload.tag
       \/ line.text.val.payload.key # secure_channel[s]

\* C10: reading an envelope whose blob fails decryption closes the session,
\* writes nothing on any connection, and changes no session field, no pending
\* handler, no table of the store and no routing; the registry gains nothing.
TamperStep ==
    \A s \in Sessions :
        pc[s] = "loop" /\ Reads(s) /\ FailsDecryption(s, last'.line) =>
            /\ pc'[s] = "closed"
            /\ wire' = wire
            /\ <<user_id, full_name, email, is_authenticated, secure_channel>>' =
                   <<user_id, full_name, email, is_authenticated, secure_channel>>
            /\ users' = users /\ messages' = messages /\ routed' = routed
            /\ \A t \in Sessions : DOMAIN local'[t] = DOMAIN local[t]
            /\ \A i \in DOMAIN online_users' :
                  \E j \in DOMAIN online_users : online_users[j] = online_users'[i]

TamperCloses == [][TamperStep]_vars

\* C10 witness: an AUTH session was closed by a chat whose blob had a flipped
\* byte
TamperedChatClosedSession ==
    \E s \in Sessions :
        /\ pc[s] = "closed" /\ is_authenticated[s] /\ last.session = s
        /\ last.line.k = "line" /\ last.line.text.json
        /\ "payload" \in DOMAIN last.line.text.val
        /\ ~last.line.text.val.payload.tag
        /\ last.line.text.val.payload.pt.val.type = "chat"
        /\ messages = <<>> /\ routed = <<>>

\* ------------------------------------------------------------------ login
\* the accounts whose email, normalized, and password are those of the login
\* that session s has pending
LoginMatches(s) ==
    {r \in users : /\ r.email = NormalizeEmail(local[s].email)
                   /\ \E salt \in Salts : r.password = hash_password(local[s].password, salt)}

\* the step writes one line on connection s: data, encrypted under the key of s
Gains(s, data) ==
    /\ Len(wire'[s]) = Len(wire[s]) + 1
    /\ SubSeq(wire'[s], 1, Len(wire[s])) = wire[s]
    /\ LET f == json_loads(wire'[s][Len(wire'[s])]) IN
          /\ f.type = "encrypted_payload"
          /\ f.payload.b64 /\ f.payload.tag
          /\ f.payload.key = secure_channel[s]
          /\ f.payload.pt = json_dumps(data)

LoginReturns(s) == pc[s] = "authenticating" /\ pc'[s] # "authenticating"

LoginOkFrames ==
    {f \in SealedFrames :
        /\ Opened(f[1], f[2]).type = "response"
        /\ HasKey(Opened(f[1], f[2]).payload, "user_info")}

LoginSuccessStep ==
    \A s \in Sessions :
        LoginReturns(s) /\ LoginMatches(s) # {} =>
            \E r \in LoginMatches(s) :
                /\ State(s) = "UNAUTH"
                /\ user_id'[s] = r.id /\ full_name'[s] = r.full_name /\ email'[s] = r.email
                /\ is_authenticated'[s]
                /\ pc'[s] = "loop"
                /\ \E i \in DOMAIN online_users' :
                      online_users'[i] = [user_id |-> r.id, session |-> s]
                /\ Gains(s, [type |-> "response",
                             payload |-> [status |-> "ok",
                                          message |-> "Login successful. Welcome, "
                                                      \o r.full_name \o "!",
                                          user_info |-> [id |-> r.id, full_name |-> r.full_name,
                                                         email |-> r.email]]])
                /\ \A t \in Sessions \ {s} : wire'[t] = wire[t]

LoginOkOnlyAfterRegistration ==
    \A f \in LoginOkFrames :
        /\ Opened(f[1], f[2]).payload.status = "ok"
        /\ is_authenticated[f[1]]
        /\ Opened(f[1], f[2]).payload.user_info.id = user_id[f[1]]
        /\ \E r \in users : r.id = user_id[f[1]] /\ r.full_name = full_name[f[1]]
                            /\ r.email = email[f[1]]

\* C11: a login in UNAUTH whose credentials match a stored account records
\* the account's id, full name and email on the session, sets
\* is_authenticated, registers the session under that id and sends the ok
\* response with user_info carrying the stored id; an ok response with
\* user_info is on a connection only when its session has been set up so.
LoginSucceeds == []LoginOkOnlyAfterRegistration /\ [][LoginSuccessStep]_vars

\* C11 witness: a session is AUTH and registered after a login that spelled
\* the email with a capital and a leading blank
LoggedInWithUnnormalizedEmail ==
    \E s \in Sessions :
        /\ State(s) = "AUTH" /\ last.session = s /\ Decrypts(s, last.line)
        /\ Inner(s, last.line).type = "login"
        /\ Inner(s, last.line).payload.email = <<" ", "A">>
        /\ <<s, Len(wire[s])>> \in LoginOkFrames
        /\ get_session_by_id(online_users, user_id[s]) = s

LoginFailedFrames ==
    {f \in SealedFrames :
        Opened(f[1], f[2]) = [type |-> "response",
                              payload |-> [status |-> "error",
                                           message |-> "Login failed. Invalid credentials."]]}

LoginFailureStep ==
    \A s \in Sessions :
        LoginReturns(s) /\ LoginMatches(s) = {} =>
            /\ Gains(s, [type |-> "response",
                         payload |-> [status |-> "error",
                                      message |-> "Login failed. Invalid credentials."]])
            /\ \A t \in Sessions \ {s} : wire'[t] = wire[t]
            /\ State(s) = "UNAUTH" /\ pc'[s] = "loop" /\ ~is_authenticated'[s]
            /\ <<user_id, full_name, email, is_authenticated, secure_channel>>' =
                   <<user_id, full_name, email, is_authenticated, secure_channel>>
            /\ online_users' = online_users

LoginRetryStep ==
    \A s \in Sessions :
        /\ LoginReturns(s) /\ LoginMatches(s) # {}
        /\ \E f \in LoginFailedFrames : f[1] = s
        => /\ is_authenticated'[s] /\ pc'[s] = "loop"
           /\ get_session_by_id(online_users', user_id'[s]) = s
           /\ <<s, Len(wire'[s])>> \in LoginOkFrames'

ReadsEnvelope(s) == pc[s] = "loop" /\ Reads(s) /\ Decrypts(s, last'.line)

SignupReturns(s) == pc[s] = "adding" /\ pc'[s] # "adding"

SignupStaysUnauth(s) ==
    /\ ~is_authenticated'[s]
    /\ <<user_id, full_name, email, is_authenticated, secure_channel>>' =
           <<user_id, full_name, email, is_authenticated, secure_channel>>
    /\ online_users' = online_users
    /\ \A t \in Sessions \ {s} : wire'[t] = wire[t]

SignupReadStep ==
    \A s \in Sessions :
        ReadsEnvelope(s) /\ ~is_authenticated[s] /\ Inner(s, last'.line).type = "signup" =>
            /\ SignupStaysUnauth(s)
            /\ users' = users
            /\ LET payload == Inner(s, last'.line).payload IN
               IF {"full_name", "email", "password"} \subseteq DOMAIN payload
               THEN pc'[s] = "adding" /\ wire'[s] = wire[s]
               ELSE /\ pc'[s] = "loop"
                    /\ Gains(s, [type |-> "response",
                                 payload |-> [status |-> "error",
                                              message |-> "Malformed sign-up envelope."]])

SignupReturnStep ==
    \A s \in Sessions :
        SignupReturns(s) =>
            /\ SignupStaysUnauth(s)
            /\ pc'[s] = "loop"
            /\ IF \E r \in users : r.email = local[s].email
               THEN /\ users' = users
                    /\ Gains(s, [type |-> "response",
                                 payload |-> [status |-> "error",
                                              message |-> "Sign-up failed. Email already exists."]])
               ELSE /\ Cardinality(users') = Cardinality(users) + 1
                    /\ Gains(s, [type |-> "response",
                                 payload |-> [status |-> "ok",
                                              message |-> "Sign-up successful. Please login to authenticate."]])

OnlyLoginAuthenticates ==
    \A s \in Sessions : ~is_authenticated[s] /\ is_authenticated'[s] => LoginReturns(s)

NotAuthenticatedStep ==
    \A s \in Sessions :
        /\ ReadsEnvelope(s) /\ State(s) = "UNAUTH"
        /\ Inner(s, last'.line).type \notin {"login", "signup"}
        => /\ Gains(s, [type |-> "response",
                        payload |-> [status |-> "error",
                                     message |-> "Not authenticated. Send 'login' or 'signup'."]])
           /\ \A t \in Sessions \ {s} : wire'[t] = wire[t]
           /\ routed' = routed /\ messages' = messages /\ users' = users
           /\ online_users' = online_users
           /\ pc'[s] = "loop" /\ ~is_authenticated'[s]
           /\ <<user_id, full_name, email, secure_channel>>' =
                  <<user_id, full_name, email, secure_channel>>

\* C14: an envelope read in UNAUTH whose type is neither login nor signup is
\* answered with the error 'Not authenticated. Send 'login' or 'signup'.' and
\* with nothing else; it is not routed, nothing is stored, no other connection
\* is written to, and the session stays open and UNAUTH.
UnauthDispatch == [][NotAuthenticatedStep]_vars

\* the line read last was read by s and yielded an inner envelope of this type
LastRead(s, type) ==
    /\ last.session = s /\ last.line.k = "line" /\ json_ok(last.line.text)
    /\ is_object(json_loads(last.line.text))
    /\ HasKey(json_loads(last.line.text), "type")
    /\ json_loads(last.line.text).type = "encrypted_payload"
    /\ Decrypts(s, last.line)
    /\ Inner(s, last.line).type = type

\* C14 witness: a chat sent before any login was refused while its recipient
\* was online, and the sender is still UNAUTH
ChatRefusedBeforeLogin ==
    \E s \in Sessions :
        /\ State(s) = "UNAUTH" /\ LastRead(s, "chat")
        /\ chat_extracts(Inner(s, last.line))
        /\ get_session_by_id(online_users, Inner(s, last.line).payload.recipient_id) # NoSession
        /\ Opened(s, Len(wire[s])).payload.message = "Not authenticated. Send 'login' or 'signup'."
        /\ routed = <<>>

\* ----------------------------------------------------------------- logout
LogoutStep ==
    \A s \in Sessions :
        ReadsEnvelope(s) /\ State(s) = "AUTH" /\ Inner(s, last'.line).type = "logout" =>
            /\ pc'[s] = "closed"
            /\ \A i \in DOMAIN online_users' : online_users'[i].session # s
            /\ wire'[s] = wire[s]

\* C15 as claimed: a logout read in AUTH closes the session and unregisters
\* it, and the session processes no further envelope.
LogoutCloses ==
    /\ [][LogoutStep]_vars
    /\ [](\A s \in Sessions :
            State(s) = "AUTH" /\ LastRead(s, "logout") => pc[s] = "closed")

\* ------------------------------------------------ unknown command in AUTH
UnknownCommandStep ==
    \A s \in Sessions :
        /\ ReadsEnvelope(s) /\ State(s) = "AUTH"
        /\ Inner(s, last'.line).type \notin {"chat", "whoisonline", "logout"}
        => /\ Gains(s, [type |-> "response",
                        payload |-> [status |-> "error",
                                     message |-> "Unknown command type: "
                                                 \o Inner(s, last'.line).type]])
           /\ \A t \in Sessions \ {s} : wire'[t] = wire[t]
           /\ pc'[s] = "loop" /\ is_authenticated'[s]
           /\ <<user_id, full_name, email, is_authenticated, secure_channel>>' =
                  <<user_id, full_name, email, is_authenticated, secure_channel>>
           /\ online_users' = online_users
           /\ users' = users /\ messages' = messages /\ routed' = routed

\* C16: an envelope read in AUTH whose type is none of chat, whoisonline and
\* logout is answered with the error 'Unknown command type: <type>'; the
\* session stays open and AUTH, and neither its user nor the registry nor the
\* store changes, also when the type is login or signup.
UnknownCommandInAuth == [][UnknownCommandStep]_vars

\* C16 witness: a session logged in as one user was sent a login for another
\* email, answered it with the error, and is still that user and registered
LoginInAuthRefused ==
    \E s \in Sessions :
        /\ State(s) = "AUTH" /\ LastRead(s, "login")
        /\ NormalizeEmail(Inner(s, last.line).payload.email) # email[s]
        /\ Opened(s, Len(wire[s])).payload.message = "Unknown command type: login"
        /\ get_session_by_id(online_users, user_id[s]) = s

\* ------------------------------------------------------------------- chat
\* the chat envelope read in this step by s, when s is AUTH and the envelope
\* has a payload with a recipient_id and a text that is a string
ReadsChat(s) ==
    /\ ReadsEnvelope(s) /\ State(s) = "AUTH"
    /\ Inner(s, last'.line).type = "chat"
    /\ "payload" \in DOMAIN Inner(s, last'.line)
    /\ {"recipient_id", "text"} \subseteq DOMAIN Inner(s, last'.line).payload
    /\ DOMAIN Inner(s, last'.line).payload.text = {"str"}
    /\ Head(Inner(s, last'.line).payload.recipient_id) # "number"

Registered(uid) == {online_users[i].session : i \in RegistryIndex(online_users, uid)}

OnlineDeliveryStep ==
    \A s \in Sessions :
        ReadsChat(s) =>
            LET payload == Inner(s, last'.line).payload IN
            \A r \in Registered(payload.recipient_id) :
                /\ Gains(r, [type |-> "new_message",
                             payload |-> [sender_id |-> user_id[s],
                                          sender_name |-> full_name[s],
                                          text |-> payload.text]])
                /\ \A t \in Sessions \ {r} : wire'[t] = wire[t]
                /\ messages' = messages
                /\ pc'[s] = "loop"

\* C17: a chat read in AUTH whose recipient_id is in the registry puts exactly
\* one new_message, with the sender session's user_id and full_name and the
\* text, on the recipient session's connection under that session's key;
\* nothing else is written, in particular no response to the sender, and
\* nothing is stored.
OnlineDelivery == [][OnlineDeliveryStep]_vars

\* C17 witness: a chat was delivered to another session than the sender's,
\* and the sender's connection carries no line beyond its login response
DeliveredWithoutReply ==
    \E i \in Delivered :
        /\ routed[i].found # routed[i].from
        /\ LastRead(routed[i].from, "chat")
        /\ Len(wire[routed[i].from]) = 3
        /\ Opened(routed[i].found, routed[i].at).payload.sender_name = "Alice"

StoredInfoFrames ==
    {f \in SealedFrames :
        Opened(f[1], f[2]) = [type |-> "response",
                              payload |-> [status |-> "info",
                                           message |-> "Recipient is offline. Message stored."]]}

OfflineReadStep ==
    \A s \in Sessions :
        ReadsChat(s) /\ Registered(Inner(s, last'.line).payload.recipient_id) = {} =>
            /\ pc'[s] = "storing"
            /\ wire' = wire /\ messages' = messages

OfflineStoreStep ==
    \A s \in Sessions :
        pc[s] = "storing" /\ pc'[s] # "storing" =>
            LET payload == routed[local[s].call].payload IN
            /\ routed[local[s].call].from = s
            /\ messages' = Append(messages, [sender_id |-> user_id[s],
                                             recipient_id |-> payload.recipient_id,
                                             payload_blob |-> [utf8 |-> payload.text.str]])
            /\ Gains(s, [type |-> "response",
                         payload |-> [status |-> "info",
                                      message |-> "Recipient is offline. Message stored."]])
            /\ \A t \in Sessions \ {s} : wire'[t] = wire[t]
            /\ pc'[s] = "loop"

StoredBeforeReply ==
    \A s \in Sessions :
        /\ Cardinality({f \in StoredInfoFrames : f[1] = s})
              = Cardinality({i \in Stored : routed[i].from = s})
        /\ pc[s] = "storing" => local[s].call \notin Stored

\* C18: a well-formed chat read in AUTH whose recipient_id is not in the
\* registry, whether or not any account has that id, adds exactly one row
\* (sender's user_id, recipient_id, text) to the messages and then answers the
\* sender with the info response 'Recipient is offline. Message stored.'; no
\* such response is on a connection without its row, and nobody else is
\* written to.
OfflineStorage == []StoredBeforeReply /\ [][OfflineReadStep /\ OfflineStoreStep]_vars

\* C18 witness: a chat to an id that no account has was stored and answered
StoredForUnknownRecipient ==
    \E i \in Stored :
        /\ routed[i].payload.recipient_id = UnknownId
        /\ \A r \in users : r.id # UnknownId
        /\ messages[routed[i].row].recipient_id = UnknownId
        /\ <<routed[i].from, Len(wire[routed[i].from])>> \in StoredInfoFrames

\* a chat envelope whose payload is missing or is no object, or whose
\* recipient_id or text is missing or is no string
MalformedChat(envelope) ==
    \/ "payload" \notin DOMAIN envelope
    \/ DOMAIN envelope.payload \in {{"str"}, {"num"}}
    \/ ~({"recipient_id", "text"} \subseteq DOMAIN envelope.payload)
    \/ DOMAIN envelope.payload.text # {"str"}
    \/ Head(envelope.payload.recipient_id) = "number"

MalformedChatStep ==
    \A s \in Sessions :
        /\ ReadsEnvelope(s) /\ State(s) = "AUTH"
        /\ Inner(s, last'.line).type = "chat"
        /\ MalformedChat(Inner(s, last'.line))
        => /\ Gains(s, [type |-> "response",
                        payload |-> [status |-> "error",
                                     message |-> "Malformed chat envelope."]])
           /\ \A t \in Sessions \ {s} : wire'[t] = wire[t]
           /\ messages' = messages
           /\ pc'[s] = "loop" /\ is_authenticated'[s]
           /\ online_users' = online_users

\* C19 as claimed: a malformed chat read in AUTH is answered with the error
\* 'Malformed chat envelope.', nothing is delivered, nothing is stored, and the
\* session stays open and AUTH.
MalformedChatRefused ==
    /\ [][MalformedChatStep]_vars
    /\ [](\A i \in Stored : ~MalformedChat([type |-> "chat", payload |-> routed[i].payload]))

\* ------------------------------------------------------------ whoisonline
WhoIsOnlineStep ==
    \A s \in Sessions :
        ReadsEnvelope(s) /\ State(s) = "AUTH" /\ Inner(s, last'.line).type = "whoisonline" =>
            \E list \in [DOMAIN online_users -> [id : {r.id : r \in users},
                                                 full_name : {r.full_name : r \in users}]] :
                /\ \A i \in DOMAIN list :
                      /\ list[i].id = online_users[i].user_id
                      /\ list[i].full_name = full_name[online_users[i].session]
                      /\ is_authenticated[online_users[i].session]
                /\ \A i, j \in DOMAIN list : list[i].id = list[j].id => i = j
                /\ Gains(s, [type |-> "response",
                             payload |-> [status |-> "ok", users |-> list]])
                /\ \A t \in Sessions \ {s} : wire'[t] = wire[t]
                /\ online_users' = online_users

LastLoginRegistered ==
    \A s \in Sessions :
        LoginReturns(s) /\ is_authenticated'[s] =>
            /\ get_session_by_id(online_users', user_id'[s]) = s
            /\ Cardinality(RegistryIndex(online_users', user_id'[s])) = 1

\* C20: the answer to whoisonline is an ok response whose users list has one
\* {id, full_name} element for each entry of the registry as it is when the
\* request is handled, every entry's session being authenticated, and no id
\* twice; each login leaves exactly one entry for its user, that of the
\* session that logged in last.
WhoIsOnlineSnapshot == [][WhoIsOnlineStep /\ LastLoginRegistered]_vars

\* C20 witness: after two sessions logged in as the same user, the second
\* asked who is online and was told of that user once
ListedOnceAfterRelogin ==
    \E s, t \in AuthSessions :
        /\ s # t /\ user_id[s] = user_id[t]
        /\ LastRead(t, "whoisonline")
        /\ get_session_by_id(online_users, user_id[t]) = t
        /\ HasKey(Opened(t, Len(wire[t])).payload, "users")
        /\ Len(Opened(t, Len(wire[t])).payload.users) = 1
        /\ Opened(t, Len(wire[t])).payload.users[1].id = user_id[s]

\* --------------------------------------------------------------- re-login
\* an AUTH session that a registry lookup of its user id does not return
Evicted(t) == State(t) = "AUTH" /\ get_session_by_id(online_users, user_id[t]) # t

\* the plaintext of line j written on connection s, the lines being w
OpenedIn(w, s, j) == json_loads(json_loads(w[s][j]).payload.pt)

EvictionStep ==
    \A s \in Sessions :
        LoginReturns(s) /\ is_authenticated'[s] =>
            \A t \in Registered(user_id'[s]) \ {s} :
                /\ Len(online_users') = Len(online_users)
                /\ get_session_by_id(online_users', user_id'[s]) = s
                /\ Cardinality(RegistryIndex(online_users', user_id'[s])) = 1
                /\ pc'[t] = pc[t] /\ pc'[t] # "closed"
                /\ is_authenticated'[t] /\ user_id'[t] = user_id[t]
                /\ full_name'[t] = full_name[t] /\ secure_channel'[t] = secure_channel[t]
                /\ wire'[t] = wire[t]
                /\ Evicted(t)'

EvictedStillServedStep ==
    \A t \in Sessions :
        ReadsEnvelope(t) /\ Evicted(t) =>
            /\ Inner(t, last'.line).type = "whoisonline" =>
                  /\ Len(wire'[t]) = Len(wire[t]) + 1
                  /\ OpenedIn(wire', t, Len(wire'[t])).payload.status = "ok"
            /\ ReadsChat(t) =>
                  /\ Len(routed') = Len(routed) + 1
                  /\ routed'[Len(routed')].from = t
                  /\ routed'[Len(routed')].at # 0 =>
                        OpenedIn(wire', routed'[Len(routed')].found,
                                 routed'[Len(routed')].at).payload.sender_id = user_id[t]
                  /\ pc'[t] = "storing" => local'[t].sender_id = user_id[t]

\* C21: a login as a user whose id already has a registry entry overwrites
\* the entry with the new session; the session registered before is not
\* closed, not written to and keeps its fields, so it stays open and AUTH,
\* but a lookup of the id no longer returns it; it is still answered on
\* whoisonline and its chats are still routed under its user_id.
EvictionOnRelogin == [][EvictionStep /\ EvictedStillServedStep]_vars

\* C21 witness: a session evicted by a later login of its user sent a chat
\* afterwards, which was delivered to the later session under the shared id
EvictedSessionChatted ==
    \E i \in Delivered :
        /\ Evicted(routed[i].from)
        /\ routed[i].found # routed[i].from
        /\ State(routed[i].found) = "AUTH"
        /\ Opened(routed[i].found, routed[i].at).payload.sender_id = user_id[routed[i].found]

\* -------------------------------------------------------------- isolation
\* the step closes session s
Closes(s) == pc[s] # "closed" /\ pc'[s] = "closed"

SessionIsolationStep ==
    \A s \in Sessions :
        Closes(s) =>
            /\ conn_lost[s] \/ (Reads(s) /\ ~ReadsChat(s))
            /\ \A t \in Sessions \ {s} :
                  /\ pc'[t] = pc[t] /\ wire'[t] = wire[t]
                  /\ user_id'[t] = user_id[t] /\ is_authenticated'[t] = is_authenticated[t]
                  /\ secure_channel'[t] = secure_channel[t]

\* C22 as claimed: a session is closed only by a failure of its own (its
\* connection lost, or a line it read that ends the session), never by the
\* failure of a write to the connection of the recipient of a chat it sent;
\* and the step that closes it changes no other session.
SessionIsolation == [][SessionIsolationStep]_vars

\* ---------------------------------------------------- frames on the wire
\* C23: whatever the interleaving of the tasks that write to a connection,
\* the bytes on it are whole frames one after the other: every frame's bytes
\* are contiguous, complete and in order, and no frame is on two connections.
FramesContiguous ==
    /\ \A s \in Sessions :
          \A i \in DOMAIN stream[s] :
              i % 3 = 1 =>
                  /\ i + 2 <= Len(stream[s])
                  /\ SubSeq(stream[s], i, i + 2) = FrameBytes(stream[s][i].frame)
    /\ \A s, t \in Sessions : \A i \in DOMAIN stream[s] : \A j \in DOMAIN stream[t] :
          stream[s][i].frame = stream[t][j].frame => s = t /\ (i - 1) \div 3 = (j - 1) \div 3

\* C23 witness: the connection's own task and another task are both inside
\* send_json on the same connection, and two frames are on it
TwoTasksWritingOneConnection ==
    \E r, t \in Sessions :
        /\ t # r
        /\ sending[r] # NoLocal /\ sending[r].to = r
        /\ sending[t] # NoLocal /\ sending[t].to = r
        /\ Len(stream[r]) = 6

\* ------------------------------------------------- per-connection ordering
\* the calls of the router made for session s
CallsOf(s) == {i \in Calls : routed[i].from = s}

\* the chats of one sender delivered to one connection are on its wire in the
\* order in which the router was called, each with its own text
DeliveredInOrder ==
    \A i, j \in Delivered :
        /\ Opened(routed[i].found, routed[i].at).type = "new_message"
        /\ Opened(routed[i].found, routed[i].at).payload.text = routed[i].payload.text
        /\ (i < j /\ routed[i].from = routed[j].from /\ routed[i].found = routed[j].found)
              => routed[i].at < routed[j].at

\* a session reads its next line only when everything its earlier lines
\* caused is done: it holds no pending call, each of its chats is delivered
\* or stored; a chat read and delivered in this step goes to the end of the
\* recipient's wire
OrderStep ==
    \A s \in Sessions :
        Reads(s) =>
            /\ pc[s] = "loop" /\ local[s] = NoLocal
            /\ \A i \in CallsOf(s) : i \in Delivered \cup Stored
            /\ \A i \in CallsOf(s) : routed'[i] = routed[i]
            /\ \A t \in Sessions : SubSeq(wire'[t], 1, Len(wire[t])) = wire[t]
            /\ SubSeq(messages', 1, Len(messages)) = messages

\* C24: the envelopes of a connection are processed in the order received:
\* envelope n is fully processed (response sent, chat delivered or stored)
\* before envelope n+1 of the connection is read, and two chats of one sender
\* to one online recipient are delivered in the order sent.
PerConnectionOrdering == []DeliveredInOrder /\ [][OrderStep]_vars

\* C24 witness: Bob's chats "hi" then "yo" are on Alice's wire in that order,
\* and a chat of Bob's was stored before he sent another line
TwoChatsDeliveredInOrder ==
    \E i, j \in Delivered :
        /\ i < j /\ routed[i].from = 2 /\ routed[j].from = 2
        /\ routed[i].found = 1 /\ routed[j].found = 1
        /\ routed[i].payload.text = [str |-> "hi"] /\ routed[j].payload.text = [str |-> "yo"]
        /\ Opened(1, routed[i].at).payload.text = [str |-> "hi"]
        /\ Opened(1, routed[j].at).payload.text = [str |-> "yo"]
        /\ routed[i].at < routed[j].at
        /\ \E k \in Stored : routed[k].from = 2

\* ------------------------------------------------ sign-up, then login
\* the spellings of an email a client may type, and the email each stands for
Spellings == {<<"a">>, <<" ", "A">>, <<"A">>, <<"b">>, <<" ", "B">>, <<"B", " ">>, <<"z">>}

Canon(e) ==
    CASE e \in {<<"a">>, <<" ", "A">>, <<"A">>} -> <<"a">>
      [] e \in {<<"b">>, <<" ", "B">>, <<"B", " ">>} -> <<"b">>
      [] OTHER -> e

Passwords == {"p1", "p2", "p3"}

\* when a sign-up with (name, e, pw) creates the account, a login with any
\* spelling of e and pw returns the account's record, and a login with any
\* spelling of e and another password returns nothing; accounts persist
RoundTripStep ==
    /\ \A r \in users : r \in users'
    /\ \A s \in Sessions :
          SignupReturns(s) /\ users' # users =>
              LET e == local[s].typed_email
                  pw == local[s].typed_password
                  record == [id |-> <<"uuid5", "dns">> \o Canon(e),
                             full_name |-> local[s].full_name,
                             email |-> Canon(e), password |-> local[s].password]
              IN  \A e2 \in Spellings :
                      Canon(e2) = Canon(e) =>
                          /\ authenticate(users', e2, pw) = {record}
                          /\ \A wrong \in Passwords \ {pw} : authenticate(users', e2, wrong) = {}

\* a login with an email that no account was signed up with returns nothing
UnknownEmailFails ==
    \A e \in Spellings : \A pw \in Passwords :
        (\A r \in users : r.email # Canon(e)) => authenticate(users, e, pw) = {}

\* C25: after a successful sign-up with (name, e, pw), a login with (e, pw)
\* succeeds and returns that user's record, a login with e and a wrong
\* password fails, a login with an email never signed up fails; emails are
\* compared after trimming and lower-casing.
SignupLoginRoundTrip == []UnknownEmailFails /\ [][RoundTripStep]_vars

\* C25 witness: a connection signed Bob up and then logged in as Bob: its
\* session is AUTH with the record of the new account
LoggedInAfterSignup ==
    \E s \in Sessions :
        /\ State(s) = "AUTH" /\ full_name[s] = "Bob"
        /\ user_id[s] = <<"uuid5", "dns", "b">> /\ email[s] = <<"b">>
        /\ Len(wire[s]) = 4
        /\ Opened(s, 3) = Response("ok", "Sign-up successful. Please login to authenticate.")
        /\ Opened(s, 4).payload.user_info =
               [id |-> <<"uuid5", "dns", "b">>, full_name |-> "Bob", email |-> <<"b">>]

\* -------------------------------------------------------- unique accounts
\* no two accounts stand for the same email
UniqueEmails ==
    \A r1, r2 \in users : Canon(r1.email) = Canon(r2.email) => r1 = r2

EmailExists == Response("error", "Sign-up failed. Email already exists.")

\* add_user returning to the sign-up of session s: when an account stands for
\* the email typed, whatever its spelling, no row is added or changed and the
\* answer is the error; otherwise exactly one row is added, for that email
UniqueSignupStep ==
    \A s \in Sessions :
        SignupReturns(s) =>
            LET e == Canon(local[s].typed_email) IN
            IF \E r \in users : Canon(r.email) = e
            THEN /\ users' = users
                 /\ add_user(users, local[s].full_name, local[s].email, local[s].password) = users
                 /\ Gains(s, EmailExists)
            ELSE /\ \E r \in users' : r.email = e /\ users' = users \cup {r} /\ r \notin users
                 /\ add_user(users, local[s].full_name, local[s].email, local[s].password) # users
                 /\ ~Gains(s, EmailExists)

\* C26: a sign-up whose email, trimmed and lower-cased, is that of an existing
\* user fails with 'Sign-up failed. Email already exists.' and leaves the
\* rows as they were, whatever the casing or blanks typed; add_user adds no
\* row iff the email exists; the store never holds two users with the same
\* normalized email, however concurrent sign-ups interleave.
UniqueAccounts == []UniqueEmails /\ [][UniqueSignupStep]_vars

\* C26 witness: one connection signed up a new email; another was refused
\* twice, the last time for Alice's email typed with a capital and a blank
DuplicateSignupsRefused ==
    \E s, t \in Sessions :
        /\ s # t /\ Cardinality(users) = 2
        /\ Len(wire[t]) >= 3
        /\ Opened(t, 3) = Response("ok", "Sign-up successful. Please login to authenticate.")
        /\ Len(wire[s]) = 4 /\ pc[s] = "loop"
        /\ Opened(s, 3) = EmailExists /\ Opened(s, 4) = EmailExists
        /\ LastRead(s, "signup")
        /\ Inner(s, last.line).payload.email = <<" ", "A">>

\* ------------------------------------------------- no enumeration oracle
\* the stores that differ from rows only in whether an account exists for
\* email e: without the account, or with an account whose password is not pw
Twins(rows, e, pw) ==
    IF \E r \in rows : r.email = Canon(e)
    THEN {{r \in rows : r.email # Canon(e)}}
    ELSE {rows \cup {[id |-> <<"uuid5", "dns">> \o Canon(e), full_name |-> "Zed",
                      email |-> Canon(e), password |-> [salt |-> salt, digest |-> <<salt, w>>]]} :
             w \in Passwords \ {pw}, salt \in Salts}

LoginFailed == Response("error", "Login failed. Invalid credentials.")

\* a login that fails: authenticate returns the same nothing on the store and
\* on its twins, and what the session does is fixed: one frame, always the
\* same, the session as it was, the registry as it was
NoOracleStep ==
    \A s \in Sessions :
        LoginReturns(s) /\ authenticate(users, local[s].email, local[s].password) = {} =>
            /\ \A alt \in Twins(users, local[s].email, local[s].password) :
                  authenticate(alt, local[s].email, local[s].password) = {}
            /\ Gains(s, LoginFailed)
            /\ \A t \in Sessions \ {s} : wire'[t] = wire[t]
            /\ pc'[s] = "loop" /\ local'[s] = NoLocal
            /\ <<user_id, full_name, email, is_authenticated, secure_channel>>' =
                   <<user_id, full_name, email, is_authenticated, secure_channel>>
            /\ online_users' = online_users
            /\ <<users, messages, routed>>' = <<users, messages, routed>>

ClientSideId(e) == <<"uuid5", "dns">> \o Canon(e)

IdsFromEmails ==
    /\ \A e \in Spellings :
          /\ _generate_user_id(e) = _generate_user_id(NormalizeEmail(e))
          /\ _generate_user_id(e) = ClientSideId(e)
    /\ \A r \in users : r.id = _generate_user_id(r.email) /\ r.id = ClientSideId(r.email)
    /\ \A f \in LoginOkFrames :
          Opened(f[1], f[2]).payload.user_info.id =
              ClientSideId(Opened(f[1], f[2]).payload.user_info.email)

\* a login that succeeds returns, in user_info, the id computed from the email
\* as typed
LoginIdStep ==
    \A s \in Sessions :
        LoginReturns(s) /\ is_authenticated'[s] =>
            /\ user_id'[s] = ClientSideId(local[s].email)
            /\ OpenedIn(wire', s, Len(wire'[s])).payload.user_info.id = ClientSideId(local[s].email)

\* a sign-up that creates a row gives it the id computed from the email as typed
SignupIdStep ==
    \A s \in Sessions :
        SignupReturns(s) =>
            \A r \in users' \ users : r.id = ClientSideId(local[s].typed_email)

\* C28: user_id(e) = user_id(normalize(e)) for every email e, the id depends
\* on the email alone, every stored row has id = user_id(email), and the id in
\* user_info at login is the id a client computes from the email.
DeterministicUserIds == []IdsFromEmails /\ [][LoginIdStep /\ SignupIdStep]_vars

\* C28 witness: Bob's row is stored under the id of his email, and a login
\* that typed Alice's email with a blank and a capital got her id in user_info
IdsOfStoredAndTyped ==
    \E s \in Sessions :
        /\ \E r \in users : r.email = <<"b">> /\ r.id = <<"uuid5", "dns", "b">>
        /\ LastRead(s, "login") /\ pc[s] = "loop"
        /\ Inner(s, last.line).payload.email = <<" ", "A">>
        /\ <<s, Len(wire[s])>> \in LoginOkFrames
        /\ Opened(s, Len(wire[s])).payload.user_info.id = <<"uuid5", "dns", "a">>

\* ------------------------------------------------ secure channel round trip
\* the keys in use and the texts sealed under them
ChannelKeys == {ClientKey(s) : s \in Sessions} \cup {ForeignKey}
Plaintexts == {json_dumps(e) : e \in InnerEnvelopes} \cup {NotJson}

\* a blob with one bit flipped: its tag no longer verifies
FlipBit(blob) == [blob EXCEPT !.tag = FALSE]

\* a blob cut to fewer bytes than nonce plus tag
Truncate(blob) == [blob EXCEPT !.whole = FALSE]

\* under the key of every established channel: what encrypt seals decrypt
\* opens to the same text; a flipped bit, a cut, another key on either side
\* make decrypt fail
ChannelRoundTrip ==
    \A s \in Sessions :
        secure_channel[s] # NoChannel =>
            \A m \in Plaintexts :
                LET k == secure_channel[s] IN
                /\ decrypt_ok(k, encrypt(k, m)) /\ decrypt(k, encrypt(k, m)) = m
                /\ ~decrypt_ok(k, FlipBit(encrypt(k, m)))
                /\ ~decrypt_ok(k, Truncate(encrypt(k, m)))
                /\ \A k2 \in ChannelKeys \ {k} :
                      ~decrypt_ok(k2, encrypt(k, m)) /\ ~decrypt_ok(k, encrypt(k2, m))

\* the frames the server sealed open, under the channel's key, to their text
SealedFramesOpen ==
    \A f \in SealedFrames :
        secure_channel[f[1]] # NoChannel =>
            /\ decrypt_ok(secure_channel[f[1]], Outer(f[1], f[2]).payload)
            /\ json_ok(decrypt(secure_channel[f[1]], Outer(f[1], f[2]).payload))

\* the blob of a line, when the line carries one
IsBlob(line) ==
    /\ line.k = "line" /\ json_ok(line.text)
    /\ HasKey(json_loads(line.text), "payload")
    /\ HasKey(json_loads(line.text).payload, "whole")

\* a line whose blob is flipped, cut or sealed under another key ends the
\* session in one and the same way, whatever the fault: the session is
\* closed and nothing is written
OpaqueFailureStep ==
    \A s \in Sessions :
        /\ pc[s] = "loop" /\ Reads(s) /\ IsBlob(last'.line)
        /\ LET blob == json_loads(last'.line.text).payload IN
              ~blob.tag \/ ~blob.whole \/ blob.key # secure_channel[s]
        => pc'[s] = "closed" /\ wire' = wire /\ local' = local

TeardownKeepsOthersStep ==
    \A s \in Sessions :
        Closes(s) =>
            \A i \in DOMAIN online_users :
                online_users[i].session # s =>
                    \E j \in DOMAIN online_users' : online_users'[j] = online_users[i]

TeardownKeepsOtherEntries == [][TeardownKeepsOthersStep]_vars

\* ------------------------------------------------------- no chat is lost
\* C31 as claimed: every well-formed chat accepted from an AUTH session is
\* written to a connection on which the recipient can still receive it, or is
\* stored (or is on its way into the store), however the routing interleaves
\* with the loss of the recipient's connection and its teardown.
NoChatLost ==
    \A i \in Calls :
        HasKey(routed[i].payload.text, "str") =>
            i \in Delivered \/ i \in Stored \/ Storing(i)

\* ------------------------------------------------------ AUTH is absorbing
\* once is_authenticated is set it stays set and user_id, full_name and email
\* stay as they are; a session in AUTH stays in AUTH or becomes CLOSED
AuthAbsorbingStep ==
    \A s \in Sessions :
        is_authenticated[s] =>
            /\ is_authenticated'[s]
            /\ user_id'[s] = user_id[s] /\ full_name'[s] = full_name[s] /\ email'[s] = email[s]
            /\ State(s) = "AUTH" => (State(s))' \in {"AUTH", "CLOSED"}
            /\ State(s) = "CLOSED" => (State(s))' = "CLOSED"

\* C37: once a session's is_authenticated is true it never becomes false and
\* its user_id, full_name and email never change for the rest of the
\* connection; the only transition out of AUTH is to CLOSED.
AuthAbsorbing == [][AuthAbsorbingStep]_vars

\* C37 witness: a session logged in as Alice sent a login with Bob's email and
\* password while Bob's account existed, and is still AUTH as Alice
StillAliceAfterLoginAsBob ==
    \E s \in Sessions :
        /\ State(s) = "AUTH" /\ user_id[s] = AliceRow.id /\ full_name[s] = "Alice"
        /\ BobRow \in users
        /\ LastRead(s, "login") /\ pc[s] = "loop"
        /\ Inner(s, last.line).payload = [email |-> <<"b">>, password |-> "p2"]
        /\ get_session_by_id(online_users, AliceRow.id) = s

\* --------------------------------------------------- framing errors close
\* a line that cannot be framed in the phase the session is in: over the
\* reader's limit, not JSON, JSON that is not an object, an object without
\* payload, or (phase 2) a blob whose plaintext is not a JSON object
FramingError(s, line) ==
    \/ line.k = "oversized"
    \/ /\ line.k = "line"
       /\ \/ ~line.text.json
          \/ "num" \in DOMAIN line.text.val \/ "str" \in DOMAIN line.text.val
          \/ "payload" \notin DOMAIN line.text.val
          \/ /\ pc[s] = "loop"
             /\ line.text.val.payload.b64 /\ line.text.val.payload.whole
             /\ line.text.val.payload.tag
             /\ line.text.val.payload.key = secure_channel[s]
             /\ \/ ~line.text.val.payload.pt.json
                \/ "num" \in DOMAIN line.text.val.payload.pt.val
                \/ "str" \in DOMAIN line.text.val.payload.pt.val

FramingErrorStep ==
    \A s \in Sessions :
        pc[s] \in {"await_key", "loop"} /\ Reads(s) /\ FramingError(s, last'.line) =>
            /\ pc'[s] = "closed"
            /\ wire' = wire
            /\ <<sessionFields, secure_channel, local, store, routed>>' =
                   <<sessionFields, secure_channel, local, store, routed>>

\* C35: in either phase, reading a line over the limit, a line that is not
\* JSON, an outer envelope that is not an object or has no payload, or a blob
\* whose plaintext is not a JSON object closes the session and writes no
\* frame on any connection.
FramingErrorsCloseSilently == [][FramingErrorStep]_vars

\* C35 witness: one session was closed in phase 1 by a line over the limit or
\* a number, and the other, logged in, by a blob holding a number; each wire
\* holds what it held before
BothPhasesClosedSilently ==
    \E s, u \in Sessions :
        /\ pc[s] = "closed" /\ nread[s] = 1 /\ Len(wire[s]) = 1
        /\ pc[u] = "closed" /\ is_authenticated[u] /\ Len(wire[u]) = 3
        /\ last.session = u /\ last.line.k = "line" /\ last.line.text.json
        /\ "payload" \in DOMAIN last.line.text.val
        /\ last.line.text.val.payload.key = secure_channel[u]
        /\ last.line.text.val.payload.tag /\ last.line.text.val.payload.pt.json
        /\ "num" \in DOMAIN last.line.text.val.payload.pt.val

\* ------------------------------------------------ the peers as processes
\* The peer of s sends a line (or closes its side): the session's reader
\* holds it until the task's next readline.
ClientSends(s, line) ==
    /\ pc[s] \notin {"new", "closed"}
    /\ inbox[s] = NoLine
    /\ nread[s] < MaxLines
    /\ inbox' = [inbox EXCEPT ![s] = line]
    /\ UNCHANGED <<pc, sessionFields, secure_channel, wire, local, online_users, store, nread,
                   last, routed, transport, paused>>

\* the peer of s stops reading its socket / reads it again
PeerStopsReading(s) ==
    /\ pc[s] \notin {"new", "closed"}
    /\ ~paused[s]
    /\ paused' = [paused EXCEPT ![s] = TRUE]
    /\ UNCHANGED <<pc, sessionFields, secure_channel, wire, local, online_users, store, nread,
                   last, routed, transport, inbox>>

PeerReadsAgain(s) ==
    /\ paused[s]
    /\ paused' = [paused EXCEPT ![s] = FALSE]
    /\ UNCHANGED <<pc, sessionFields, secure_channel, wire, local, online_users, store, nread,
                   last, routed, transport, inbox>>

\* readline returns the line the reader holds
Consume(s) ==
    /\ inbox[s] # NoLine
    /\ inbox' = [inbox EXCEPT ![s] = NoLine]
    /\ UNCHANGED paused

\* phase 1: the task of s is resumed with the first line
ReadFirst(s) == Consume(s) /\ Handshake(s, inbox[s])

NextHandshake ==
    \/ \E s \in Sessions : Accept(s) /\ UNCHANGED env
    \/ \E s \in Sessions : \E line \in FirstLines(s) :
          pc[s] = "await_key" /\ ClientSends(s, line) /\ UNCHANGED beyond_peers
    \/ \E s \in Sessions : ReadFirst(s) /\ UNCHANGED beyond_peers

\* the event loop resumes a task whose readline has a line to return; nothing
\* makes a peer send
FairHandshake == \A s \in Sessions : WF_vars(ReadFirst(s) /\ UNCHANGED beyond_peers)

\* the handshake of each connection, the peers sending when they please
SpecHandshake == Init /\ [][NextHandshake]_vars /\ FairHandshake

\* phase 2, both sessions logged in: what each peer sends
LiveEnvelopes(s) ==
    IF s = 1
    THEN {[type |-> "chat", payload |-> [recipient_id |-> BobRow.id, text |-> [str |-> "hi"]]],
          [type |-> "whoisonline", payload |-> <<>>]}
    ELSE {[type |-> "chat", payload |-> [recipient_id |-> AliceRow.id, text |-> [str |-> "yo"]]],
          [type |-> "chat", payload |-> [recipient_id |-> UnknownId, text |-> [str |-> "hi"]]],
          [type |-> "ping", payload |-> <<>>]}

LiveLines(s) ==
    {Eof} \cup {Line(json_dumps(Sealed(secure_channel[s], e))) : e \in LiveEnvelopes(s)}

\* phase 2: the task of s is resumed with its next line
ReadLine(s) ==
    /\ Consume(s)
    /\ \/ Terminate(s, inbox[s])
       \/ RouteChat(s, inbox[s])
       \/ WhoIsOnline(s, inbox[s])
       \/ UnknownCommand(s, inbox[s])

NextLive ==
    \/ \E s \in Sessions : \E line \in LiveLines(s) : ClientSends(s, line) /\ UNCHANGED beyond_peers
    \/ \E s \in Sessions : ReadLine(s) /\ UNCHANGED beyond_peers
    \/ \E s \in Sessions : StoreDone(s) /\ UNCHANGED env
    \/ \E s \in Sessions : DrainDone(s) /\ UNCHANGED env
    \/ \E s \in Sessions : PeerStopsReading(s) /\ UNCHANGED beyond_peers
    \/ \E s \in Sessions : PeerReadsAgain(s) /\ UNCHANGED beyond_peers

\* the event loop resumes every task whose await can return: a readline with
\* a line to return, a store call, a drain of a connection whose peer reads;
\* nothing makes a peer send or read
FairLive ==
    \A s \in Sessions :
        /\ WF_vars(ReadLine(s) /\ UNCHANGED beyond_peers)
        /\ WF_vars(StoreDone(s) /\ UNCHANGED env)
        /\ WF_vars(DrainDone(s) /\ UNCHANGED env)

\* two logged-in sessions whose peers send, stop reading and close when they
\* please
SpecLive == InitOrder /\ [][NextLive]_vars /\ FairLive

\* C33 as claimed: a session that has sent handshake_start and waits for the
\* key exchange eventually is established or closed, whatever the peer does
HandshakeResolves ==
    \A s \in Sessions : (pc[s] = "await_key") ~> (pc[s] \in {"loop", "closed"})

\* C32 as claimed: a session that is processing an envelope eventually is
\* back at readline (or closed), whatever the peers of the other sessions do
SessionsProgress ==
    \A s \in Sessions :
        (pc[s] \in {"storing", "draining"}) ~> (pc[s] \in {"loop", "closed"})

\* C38 as claimed: once the peer's EOF is delivered the session eventually
\* is closed
EofLeadsToClosed ==
    \A s \in Sessions : (inbox[s] = Eof) ~> (pc[s] = "closed")

\* ------------------------------------------------- UserRegistry, its lock
\* The tasks call the methods of the registry one after the other with
\* arguments of their choosing.  A step is what a task does between two
\* suspensions: asyncio.Lock.acquire returns at once when the lock is free
\* and nobody waits for it, and suspends the caller otherwise.
RegistryIds == {AliceRow.id, BobRow.id}

RegistryCalls ==
    {[op |-> o, uid |-> u] : o \in {"register", "unregister", "get"}, u \in RegistryIds}
    \cup {[op |-> "list", uid |-> None]}

\* mutant: the snapshot is built with an await inside the critical section
critical_section_awaits_list(op) == op = "list"

\* the methods of UserRegistry: none awaits anything inside
\* `async with self._lock`
critical_section_awaits(op) == FALSE

RegistryCall(t, c) ==
    /\ lock # t
    /\ \A i \in DOMAIN waiters : waiters[i] # t
    /\ IF lock # NoSession \/ waiters # <<>>
       THEN /\ waiters' = Append(waiters, t)
            /\ UNCHANGED <<lock, online_users, result>>
       ELSE IF critical_section_awaits(c.op)
       THEN /\ lock' = t
            /\ UNCHANGED <<waiters, online_users, result>>
       ELSE /\ online_users' =
                  CASE c.op = "register" -> register_user(online_users, c.uid, t)
                    [] c.op = "unregister" -> unregister_user(online_users, c.uid)
                    [] OTHER -> online_users
            /\ result' = [result EXCEPT ![t] =
                  CASE c.op = "get" ->
                         [op |-> "get", uid |-> c.uid,
                          session |-> get_session_by_id(online_users, c.uid)]
                    [] c.op = "list" ->
                         [op |-> "list", users |-> get_online_users_list(online_users)]
                    [] OTHER -> [op |-> c.op, uid |-> c.uid]]
            /\ UNCHANGED <<lock, waiters>>
    /\ UNCHANGED <<pc, sessionFields, secure_channel, wire, local, store, nread, last, routed,
                   transport>>

NextRegistry ==
    \/ \E t \in Sessions : \E c \in RegistryCalls : RegistryCall(t, c) /\ UNCHANGED beyond_registry

SpecRegistry == InitOrder /\ [][NextRegistry]_vars

\* the registry lock is free and nobody waits for it whenever a task is
\* suspended: it is held across no suspension (socket I/O, store call), and
\* a critical section never overlaps another
LockFree == lock = NoSession /\ waiters = <<>>

\* the entries of reg whose session is authenticated, in the map's order
SnapshotOf(reg) ==
    LET keep == SelectSeq(reg, LAMBDA e : is_authenticated[e.session])
    IN  [i \in DOMAIN keep |->
            [id |-> user_id[keep[i].session], full_name |-> full_name[keep[i].session]]]

RegistryStep ==
    /\ Cardinality({t \in Sessions : result'[t] # result[t]}) <= 1
    /\ \A t \in Sessions :
          result'[t] # result[t] =>
             /\ result'[t].op = "list" =>
                   result'[t].users = SnapshotOf(online_users) /\ online_users' = online_users
             /\ result'[t].op = "get" =>
                   /\ online_users' = online_users
                   /\ \/ /\ result'[t].session = NoSession
                         /\ \A i \in DOMAIN online_users :
                               online_users[i].user_id # result'[t].uid
                      \/ \E i \in DOMAIN online_users :
                               online_users[i] = [user_id |-> result'[t].uid,
                                                  session |-> result'[t].session]
             /\ result'[t].op = "register" =>
                   get_session_by_id(online_users', result'[t].uid) = t
             /\ result'[t].op = "unregister" =>
                   get_session_by_id(online_users', result'[t].uid) = NoSession

StopFirstLines(s) == {Eof, GoodKeyLine(s)}

StopEnvelopes ==
    {[type |-> "login", payload |-> [email |-> <<"a">>, password |-> "p1"]],
     [type |-> "chat", payload |-> [recipient_id |-> UnknownId, text |-> [str |-> "hi"]]]}

StopLines(s) ==
    IF pc[s] = "loop" /\ nread[s] < MaxLines
    THEN {Eof} \cup {Line(json_dumps(Sealed(secure_channel[s], e))) : e \in StopEnvelopes}
    ELSE {}

\* main: the task of Server.start is interrupted and the finally block calls
\* Server.stop, which closes the listener and awaits Server.wait_closed().
\* wait_closed returns at once after close() up to Python 3.11 and waits for
\* every connection to be done from Python 3.12 on.
Interrupt(waits) ==
    /\ stop_pc = "serving"
    /\ listening' = FALSE
    /\ stop_pc' = IF waits THEN "wait_connections" ELSE "wait_closed"
    /\ UNCHANGED <<db_open, called_closed>>

\* Server.stop: wait_closed returns and Database.close is called
WaitClosedReturns ==
    /\ \/ stop_pc = "wait_closed"
       \/ stop_pc = "wait_connections" /\ \A s \in Sessions : pc[s] \in {"new", "closed"}
    /\ stop_pc' = "db_close"
    /\ UNCHANGED <<listening, db_open, called_closed>>

\* Database.close: the connection is closed
DbClose ==
    /\ stop_pc = "db_close"
    /\ db_open' = FALSE
    /\ stop_pc' = "db_closed"
    /\ UNCHANGED <<listening, called_closed>>

\* Server.stop and main return; asyncio.run cancels the tasks that are left
MainReturns ==
    /\ stop_pc = "db_closed"
    /\ stop_pc' = "stopped"
    /\ UNCHANGED <<listening, db_open, called_closed>>

StopStep ==
    /\ \/ \E waits \in BOOLEAN : Interrupt(waits)
       \/ WaitClosedReturns
       \/ DbClose
       \/ MainReturns
    /\ UNCHANGED <<pc, sessionFields, secure_channel, wire, local, online_users, store, nread,
                   last, routed, transport>>

\* the task of s is cancelled at its await: CancelledError passes the except
\* clauses of handle_connection and the finally block runs
Cancelled(s) ==
    /\ stop_pc = "stopped"
    /\ pc[s] \notin {"new", "closed"}
    /\ Finally(s)
    /\ local' = [local EXCEPT ![s] = NoLocal]
    /\ UNCHANGED <<sessionFields, secure_channel, wire, store, nread, last, routed, transport,
                   shutdown>>

\* the envelope makes its handler call the account store: a login with both
\* fields, a chat for a recipient that is not online
CallsStore(s, line) ==
    /\ Decrypts(s, line)
    /\ \/ /\ requires_login(s)
          /\ Inner(s, line).type = "login"
          /\ HasKey(Inner(s, line).payload, "email")
          /\ HasKey(Inner(s, line).payload, "password")
       \/ /\ ~requires_login(s)
          /\ Inner(s, line).type = "chat"
          /\ chat_extracts(Inner(s, line))
          /\ ~recipient_online(get_session_by_id(online_users,
                                                 Inner(s, line).payload.recipient_id))

\* a call of the store after its close: the connection raises ValueError,
\* which handle_connection catches, and the finally block runs
ClosedStoreCall(s, line) ==
    /\ ~db_open
    /\ pc[s] = "loop"
    /\ CallsStore(s, line)
    /\ Read(s, line)
    /\ Finally(s)
    /\ called_closed' = called_closed \cup {s}
    /\ UNCHANGED <<sessionFields, secure_channel, wire, local, store, routed, listening,
                   db_open, stop_pc>>

\* the tasks of the sessions run until asyncio.run cancels them
Running == stop_pc # "stopped"

NextStop ==
    \/ \E s \in Sessions : listening /\ Running /\ Accept(s) /\ UNCHANGED env
    \/ \E s \in Sessions : \E line \in StopFirstLines(s) :
          Running /\ Handshake(s, line) /\ UNCHANGED env
    \/ \E s \in Sessions : \E line \in StopLines(s) :
          Running /\ Terminate(s, line) /\ UNCHANGED env
    \/ \E s \in Sessions : \E line \in StopLines(s) :
          Running /\ db_open /\ Login(s, line) /\ UNCHANGED env
    \/ \E s \in Sessions : Running /\ LoginDone(s) /\ UNCHANGED env
    \/ \E s \in Sessions : \E line \in StopLines(s) :
          Running /\ NotAuthenticated(s, line) /\ UNCHANGED env
    \/ \E s \in Sessions : \E line \in StopLines(s) :
          Running /\ (db_open \/ ~CallsStore(s, line)) /\ RouteChat(s, line) /\ UNCHANGED env
    \/ \E s \in Sessions : Running /\ StoreDone(s) /\ UNCHANGED env
    \/ \E s \in Sessions : \E line \in StopLines(s) :
          Running /\ UnknownCommand(s, line) /\ UNCHANGED env
    \/ \E s \in Sessions : \E line \in StopLines(s) :
          Running /\ ClosedStoreCall(s, line) /\ UNCHANGED beyond_shutdown
    \/ StopStep /\ UNCHANGED beyond_shutdown
    \/ \E s \in Sessions : Cancelled(s) /\ UNCHANGED beyond_shutdown

\* the server, its clients, and an interrupt of the main task at any moment
SpecStop == Init /\ [][NextStop]_vars

\* C36 as claimed: the listener is closed before the store, the store is
\* closed only when every session has ended, and no session calls the store
\* after its close
ShutdownOrdering ==
    /\ ~db_open => ~listening
    /\ ~db_open => \A s \in Sessions : pc[s] \in {"new", "closed"}
    /\ called_closed = {}

\* ------------------------------------------------------- NetworkClient
\* The client's network thread, with the server and the user as its
\* environment.  The user does not call stop().
server == <<pc, sessionFields, secure_channel, wire, local, online_users, store, nread, last,
            routed, transport>>

\* the client's SecureChannel: the same contract as the server's
client_encrypt(key, plaintext) == encrypt(key, plaintext)
client_decrypt_ok(key, blob) == HasKey(blob, "whole") /\ decrypt_ok(key, blob)
client_decrypt(key, blob) == decrypt(key, blob)

\* what the user enqueues with send()
Items ==
    {[type |-> "login", payload |-> [email |-> <<"a">>, password |-> "p1"]],
     [type |-> "whoisonline", payload |-> <<>>]}

\* what a server can send first: handshake_start with a key, with a PEM that
\* does not load, without payload, another type, noise, a number, EOF
ServerStartLines ==
    {Line(json_dumps([type |-> "handshake_start", payload |-> [public_key |-> public_key_pem]])),
     Line(json_dumps([type |-> "handshake_start", payload |-> [public_key |-> [pem |-> "garbage"]]])),
     Line(json_dumps([type |-> "handshake_start"])),
     Line(json_dumps(Response("error", "busy"))),
     Line(NotJson), NotAnObject, Eof}

\* what a server can answer to the key exchange of a client holding key k
ServerConfirmLines(k) ==
    {Line(json_dumps(Sealed(k, HandshakeComplete))),
     Line(json_dumps(Sealed(ForeignKey, HandshakeComplete))),
     Line(json_dumps(Sealed(k, Response("error", "busy")))),
     Line(json_dumps([type |-> "encrypted_payload",
                      payload |-> encrypt(k, json_dumps(JsonNumber))])),
     Line(json_dumps([type |-> "encrypted_payload",
                      payload |-> [encrypt(k, json_dumps(HandshakeComplete))
                                      EXCEPT !.tag = FALSE]])),
     Line(json_dumps([type |-> "encrypted_payload", nopayload |-> TRUE])),
     Line(json_dumps(HandshakeComplete)),
     Line(NotJson), NotAnObject, Eof}

\* what a server can send on an established connection
ServerPushLines(k) ==
    {Line(json_dumps(Sealed(k, Response("ok", "hello")))),
     Line(json_dumps([type |-> "encrypted_payload",
                      payload |-> encrypt(k, json_dumps(JsonNumber))])),
     Line(json_dumps([type |-> "encrypted_payload",
                      payload |-> [encrypt(k, json_dumps(Response("ok", "hello")))
                                      EXCEPT !.tag = FALSE]])),
     Line(json_dumps([type |-> "encrypted_payload", nopayload |-> TRUE])),
     Line(NotJson)}

\* serialization.load_pem_public_key accepts the text
load_pem_public_key_ok(pem) == pem.pem \in {ServerRsa, OtherRsa}

put(queue, type) == Append(queue, type)

\* the finally block of _async_main
client_finally(q) ==
    [nc EXCEPT !.secure_channel = NoChannel, !.writer = FALSE,
               !.gui_queue = put(q, "network_disconnected")]

\* _async_main: asyncio.open_connection returns or raises
open_connection(ok) ==
    /\ ctask.pc = "idle"
    /\ ctask.n < MaxConnects
    /\ cconn' = [sent |-> <<>>, eof |-> FALSE, nrecv |-> 0, last |-> NoLine]
    /\ IF ok
       THEN /\ nc' = [nc EXCEPT !.writer = TRUE]
            /\ ctask' = [ctask EXCEPT !.pc = "await_start", !.n = @ + 1]
       ELSE /\ nc' = [nc EXCEPT !.gui_queue = put(@, "network_error")]
            /\ ctask' = [ctask EXCEPT !.pc = "backoff", !.n = @ + 1]

\* _perform_handshake raises: the except clause of _async_main reports the
\* error and sleeps
handshake_raises ==
    /\ nc' = [nc EXCEPT !.gui_queue = put(@, "network_error")]
    /\ ctask' = [ctask EXCEPT !.pc = "backoff", !.aes_key = NoChannel]

\* _perform_handshake accepts the first line
start_ok(line) ==
    /\ line.k = "line"
    /\ json_ok(line.text)
    /\ is_object(json_loads(line.text))
    /\ HasKey(json_loads(line.text), "type")
    /\ json_loads(line.text).type = "handshake_start"
    /\ HasKey(json_loads(line.text), "payload")
    /\ HasKey(json_loads(line.text).payload, "public_key")
    /\ load_pem_public_key_ok(json_loads(line.text).payload.public_key)

\* mutant: the channel is installed as soon as the key is generated
_perform_handshake_start_early(line) ==
    /\ ctask.pc = "await_start"
    /\ IF start_ok(line)
       THEN LET aes_key == ClientKey(ctask.n) IN
            /\ cconn' = [cconn EXCEPT
                  !.sent = Append(@, json_dumps(
                              [type |-> "key_exchange",
                               payload |-> [key |-> RsaB64(
                                   json_loads(line.text).payload.public_key.pem, aes_key)]])),
                  !.last = line]
            /\ ctask' = [ctask EXCEPT !.pc = "await_confirm", !.aes_key = aes_key]
            /\ nc' = [nc EXCEPT !.secure_channel = aes_key]
       ELSE /\ handshake_raises
            /\ cconn' = [cconn EXCEPT !.last = line]

\* _perform_handshake from the first readline to the second
_perform_handshake_start(line) ==
    /\ ctask.pc = "await_start"
    /\ IF start_ok(line)
       THEN LET aes_key == ClientKey(ctask.n) IN
            /\ cconn' = [cconn EXCEPT
                  !.sent = Append(@, json_dumps(
                              [type |-> "key_exchange",
                               payload |-> [key |-> RsaB64(
                                   json_loads(line.text).payload.public_key.pem, aes_key)]])),
                  !.last = line]
            /\ ctask' = [ctask EXCEPT !.pc = "await_confirm", !.aes_key = aes_key]
            /\ UNCHANGED nc
       ELSE /\ handshake_raises
            /\ cconn' = [cconn EXCEPT !.last = line]

\* _perform_handshake accepts the second line
confirm_ok(aes_key, line) ==
    /\ line.k = "line"
    /\ json_ok(line.text)
    /\ is_object(json_loads(line.text))
    /\ HasKey(json_loads(line.text), "payload")
    /\ client_decrypt_ok(aes_key, json_loads(line.text).payload)
    /\ json_ok(client_decrypt(aes_key, json_loads(line.text).payload))
    /\ is_object(json_loads(client_decrypt(aes_key, json_loads(line.text).payload)))
    /\ json_loads(client_decrypt(aes_key, json_loads(line.text).payload)).type
          = "handshake_complete"

\* _perform_handshake from the second readline to its return, and _async_main
\* up to the await of gather
_perform_handshake_confirm(line) ==
    /\ ctask.pc = "await_confirm"
    /\ IF confirm_ok(ctask.aes_key, line)
       THEN /\ nc' = [nc EXCEPT !.secure_channel = ctask.aes_key,
                                !.gui_queue = put(@, "network_connected")]
            /\ ctask' = [ctask EXCEPT !.pc = "connected", !.recv = "reading",
                                      !.send = "getting"]
       ELSE handshake_raises
    /\ cconn' = [cconn EXCEPT !.last = line]

\* _async_main: the sleep of the except clause returns and the finally block
\* runs
sleep_returns ==
    /\ ctask.pc = "backoff"
    /\ nc' = client_finally(nc.gui_queue)
    /\ ctask' = [ctask EXCEPT !.pc = "idle",
                              !.retry_delay = IF 2 * @ < 10 THEN 2 * @ ELSE 10]
    /\ UNCHANGED cconn

\* _recv_loop: the line opens under the channel
recv_opens(line) ==
    /\ json_ok(line.text)
    /\ HasKey(json_loads(line.text), "payload")
    /\ client_decrypt_ok(nc.secure_channel, json_loads(line.text).payload)
    /\ json_ok(client_decrypt(nc.secure_channel, json_loads(line.text).payload))

\* _recv_loop: json.loads or decrypt raises JSONDecodeError or ValueError
recv_invalid(line) ==
    \/ ~json_ok(line.text)
    \/ /\ is_object(json_loads(line.text))
       /\ HasKey(json_loads(line.text), "payload")
       /\ ~recv_opens(line)

\* _recv_loop: one readline and what follows it
_recv_loop(line) ==
    /\ ctask.pc = "connected"
    /\ ctask.recv = "reading"
    /\ line.k = "eof" \/ cconn.nrecv < MaxRecv
    /\ cconn' = [cconn EXCEPT !.last = line,
                              !.nrecv = IF line.k = "eof" THEN @ ELSE @ + 1]
    /\ IF line.k = "eof"
       THEN /\ ctask' = [ctask EXCEPT !.recv = "done"]
            /\ UNCHANGED nc
       ELSE IF recv_opens(line)
       THEN LET obj == json_loads(client_decrypt(nc.secure_channel,
                                                 json_loads(line.text).payload)) IN
            /\ nc' = IF is_object(obj) THEN [nc EXCEPT !.gui_queue = put(@, obj.type)]
                                       ELSE nc
            /\ UNCHANGED ctask
       ELSE IF recv_invalid(line)
       THEN /\ nc' = [nc EXCEPT !.gui_queue = put(@, "network_error")]
            /\ UNCHANGED ctask
       ELSE /\ nc' = [nc EXCEPT !.gui_queue = put(@, "network_error")]
            /\ ctask' = [ctask EXCEPT !.recv = "done"]

\* NetworkClient.send, called by the user
send(obj) ==
    /\ nc.nput < MaxItems
    /\ nc' = [nc EXCEPT !.outgoing = Append(@, obj), !.nput = @ + 1]
    /\ UNCHANGED <<ctask, cconn>>

\* _send_loop: outgoing.get returns an item; the item is sealed, written and
\* drained.  On a connection the server has closed the write is lost, and
\* drain raises then or at a later send.
_send_loop(raises) ==
    /\ ctask.pc = "connected"
    /\ ctask.send = "getting"
    /\ nc.outgoing # <<>>
    /\ raises => cconn.eof
    /\ IF ~nc.writer \/ nc.secure_channel = NoChannel
       THEN /\ nc' = [nc EXCEPT !.outgoing = Tail(@),
                                !.gui_queue = put(@, "network_error")]
            /\ UNCHANGED <<ctask, cconn>>
       ELSE /\ cconn' = [cconn EXCEPT
                  !.sent = Append(@, json_dumps(
                              [type |-> "encrypted_payload",
                               payload |-> client_encrypt(nc.secure_channel,
                                              json_dumps(Head(nc.outgoing)))]))]
            /\ nc' = [nc EXCEPT !.outgoing = Tail(@),
                                !.gui_queue = IF raises THEN put(@, "network_error") ELSE @]
            /\ ctask' = [ctask EXCEPT !.send = IF raises THEN "done" ELSE @]

\* _async_main: both loops have returned, gather returns and the finally
\* block runs
gather_returns ==
    /\ ctask.pc = "connected"
    /\ ctask.recv = "done"
    /\ ctask.send = "done"
    /\ nc' = client_finally(nc.gui_queue)
    /\ ctask' = [ctask EXCEPT !.pc = "idle", !.recv = "off", !.send = "off",
                              !.aes_key = NoChannel]
    /\ UNCHANGED cconn

\* the server closes the established connection
ServerCloses ==
    /\ ctask.pc = "connected"
    /\ ~cconn.eof
    /\ cconn' = [cconn EXCEPT !.eof = TRUE]
    /\ UNCHANGED <<nc, ctask>>

RecvLines == IF cconn.eof THEN {Eof} ELSE ServerPushLines(nc.secure_channel)

beyond == <<server, beyond_client>>

NextClient ==
    \/ \E ok \in BOOLEAN : open_connection(ok) /\ UNCHANGED beyond
    \/ \E line \in ServerStartLines : _perform_handshake_start(line) /\ UNCHANGED beyond
    \/ \E line \in ServerConfirmLines(ctask.aes_key) :
          _perform_handshake_confirm(line) /\ UNCHANGED beyond
    \/ sleep_returns /\ UNCHANGED beyond
    \/ \E line \in RecvLines : _recv_loop(line) /\ UNCHANGED beyond
    \/ \E obj \in Items : send(obj) /\ UNCHANGED beyond
    \/ \E raises \in BOOLEAN : _send_loop(raises) /\ UNCHANGED beyond
    \/ gather_returns /\ UNCHANGED beyond
    \/ ServerCloses /\ UNCHANGED beyond

\* the client's event loop resumes what can run: a connection attempt, the
\* end of a sleep, a readline at EOF, a get of a queue that holds an item, a
\* gather whose loops are done.  Nothing makes the server send or the user
\* enqueue.
FairClient ==
    /\ WF_vars(\E ok \in BOOLEAN : open_connection(ok) /\ UNCHANGED beyond)
    /\ WF_vars(sleep_returns /\ UNCHANGED beyond)
    /\ WF_vars(cconn.eof /\ _recv_loop(Eof) /\ UNCHANGED beyond)
    /\ WF_vars(\E raises \in BOOLEAN : _send_loop(raises) /\ UNCHANGED beyond)
    /\ WF_vars(gather_returns /\ UNCHANGED beyond)

SpecClient == Init /\ [][NextClient]_vars /\ FairClient

\* -------------------------------------------- the client's handshake, C39
IsKeyExchange(text) ==
    /\ text.json /\ text.val.type = "key_exchange"
    /\ text.val.payload.key.b64

IsSealedItem(text, k) ==
    /\ text.json /\ text.val.type = "encrypted_payload"
    /\ text.val.payload.b64 /\ text.val.payload.tag /\ text.val.payload.key = k
    /\ text.val.payload.pt.json /\ text.val.payload.pt.val \in Items

ClientInv ==
    /\ ctask.pc \in {"idle", "await_start", "await_confirm", "backoff"} =>
          nc.secure_channel = NoChannel
    /\ ctask.pc = "await_start" => cconn.sent = <<>>
    /\ ctask.pc = "await_confirm" => Len(cconn.sent) = 1
    /\ \A i \in DOMAIN cconn.sent :
          IF i = 1 THEN IsKeyExchange(cconn.sent[1])
          ELSE IsSealedItem(cconn.sent[i], ClientKey(ctask.n))

ClientStep ==
    /\ nc.secure_channel' # nc.secure_channel /\ nc.secure_channel' # NoChannel =>
          /\ ctask.pc = "await_confirm"
          /\ nc.secure_channel' = ctask.aes_key /\ ctask.aes_key = ClientKey(ctask.n)
          /\ cconn'.last.k = "line" /\ cconn'.last.text.json
          /\ cconn'.last.text.val.type = "encrypted_payload"
          /\ cconn'.last.text.val.payload.b64 /\ cconn'.last.text.val.payload.tag
          /\ cconn'.last.text.val.payload.key = ctask.aes_key
          /\ cconn'.last.text.val.payload.pt.json
          /\ cconn'.last.text.val.payload.pt.val.type = "handshake_complete"
    /\ Len(cconn'.sent) > Len(cconn.sent) /\ Len(cconn.sent) >= 1 =>
          /\ nc.secure_channel = ClientKey(ctask.n)
          /\ ctask.pc = "connected"

\* C39: the client's channel is set only by the step that opens a
\* handshake_complete frame under the key generated for this connection; a
\* handshake in progress or failed leaves no channel set, and a handshake in
\* progress has written nothing but the key exchange; every line written
\* after the key exchange is an encrypted_payload sealed under that key,
\* written while connected.
ClientHandshakeMirror == []ClientInv /\ [][ClientStep]_vars

\* C39 witness: a first handshake failed, the second connection is
\* established and an item was sent on it
SentAfterSecondHandshake ==
    /\ ctask.n = 2 /\ ctask.pc = "connected"
    /\ Len(nc.gui_queue) >= 3 /\ nc.gui_queue[1] = "network_error"
    /\ nc.gui_queue[Len(nc.gui_queue)] = "network_connected"
    /\ Len(cconn.sent) = 2

\* ------------------------------------------------ the client's reconnect
\* C40 as claimed: after the server has closed an established connection the
\* client leaves it: gather returns, the finally block reports
\* network_disconnected and the loop goes on to a new connection (stated for
\* the connections that leave room for another connection and another item)
ReconnectsAfterClose ==
    (ctask.pc = "connected" /\ cconn.eof /\ ctask.n < MaxConnects /\ nc.nput < MaxItems)
        ~> (ctask.pc # "connected")

====
